---- MODULE Spec2Model ----
(***************************************************************************)
(* Stop-loss engine and per-pair reference store of the freqtrade          *)
(* strategies under ft_userdata/user_data/strategies.                      *)
(*                                                                         *)
(* A behaviour is one bot process running one strategy class: the host     *)
(* feeds candle windows to populate_indicators (which rewrites the          *)
(* strategy's per-pair store), opens and closes trades, and calls          *)
(* custom_stoploss for the open trade on every tick.                       *)
(*                                                                         *)
(* Numbers.  Python floats are modelled as exact rationals plus the value  *)
(* NaN; rounding of IEEE doubles is not modelled.  A number is a record    *)
(* [n, h, d] standing for (n + h * 10^9) / d with d > 0: the h part holds   *)
(* quotients by the literal 1e-9 that two strategies use as a division     *)
(* guard, which would not fit TLC's 32-bit integers otherwise.  NaN is the *)
(* record with d = 0, Python's None the record with d = -1.                *)
(***************************************************************************)
EXTENDS Integers, Sequences, FiniteSets, TLC

(* ------------------------------ bounds -------------------------------- *)

\* candle timestamps are 1..MaxDate
MaxDate == 3
\* the longest candle window one indicator pass receives
MaxLen == 2

(* ------------------------------ numbers ------------------------------- *)

RECURSIVE GCD(_, _)
GCD(a, b) == IF b = 0 THEN a ELSE GCD(b, a % b)

Abs(i) == IF i < 0 THEN -i ELSE i

Norm(n, h, d) ==
    LET g == GCD(GCD(Abs(n), Abs(h)), Abs(d))
        s == IF d < 0 THEN -1 ELSE 1
    IN  [n |-> (s * n) \div g, h |-> (s * h) \div g, d |-> (s * d) \div g]

\* the float n/d
Q(n, d) == Norm(n, 0, d)

\* float("nan")
NaN == [n |-> 0, h |-> 0, d |-> 0]

\* Python's None (an absent current_profit, an Optional[float] without value)
None == [n |-> 0, h |-> 0, d |-> -1]

IsNaN(x) == x.d = 0
IsNone(x) == x.d = -1

Neg(a) == IF IsNaN(a) THEN NaN ELSE [n |-> -a.n, h |-> -a.h, d |-> a.d]

Add(a, b) ==
    IF IsNaN(a) \/ IsNaN(b) THEN NaN
    ELSE Norm(a.n * b.d + b.n * a.d, a.h * b.d + b.h * a.d, a.d * b.d)

Sub(a, b) == Add(a, Neg(b))

\* a * b; at most one factor carries an h part
Mul(a, b) ==
    IF IsNaN(a) \/ IsNaN(b) THEN NaN
    ELSE Norm(a.n * b.n, a.h * b.n + a.n * b.h, a.d * b.d)

\* a / b for a divisor b without h part and different from 0 (every division
\* of the strategies is guarded against a zero divisor)
Div(a, b) ==
    IF IsNaN(a) \/ IsNaN(b) THEN NaN
    ELSE Norm(a.n * b.d, a.h * b.d, a.d * b.n)

\* a / 1e-9
DivEps(a) == IF IsNaN(a) THEN NaN ELSE Norm(0, a.n, a.d)

\* Python's comparisons: every comparison with NaN is False.  The h part
\* decides first: after cross-multiplication it is an integer multiple of
\* 10^9, larger than any n part of the model.
Lt(a, b) ==
    /\ ~IsNaN(a)
    /\ ~IsNaN(b)
    /\ LET dh == a.h * b.d - b.h * a.d
           dn == a.n * b.d - b.n * a.d
       IN  dh < 0 \/ (dh = 0 /\ dn < 0)

Gt(a, b) == Lt(b, a)
Le(a, b) == ~IsNaN(a) /\ ~IsNaN(b) /\ ~Lt(b, a)
Ge(a, b) == Le(b, a)

\* Python's builtin max(a, b): a unless b > a (so max(x, nan) = x, max(nan, x) = nan)
PyMax(a, b) == IF Gt(b, a) THEN b ELSE a

\* Python's builtin min(a, b): a unless b < a
PyMin(a, b) == IF Lt(b, a) THEN b ELSE a

Zero == Q(0, 1)
One == Q(1, 1)

\* max(x, 1e-9) applied before a division: x itself when x >= 1e-9, which
\* for the rationals of the model (denominators far below 10^9) is x > 0.
\* The quotient a / max(x, 1e-9):
DivGuarded(a, x) == IF Gt(x, Zero) THEN Div(a, x) ELSE DivEps(a)

(* ------------------------- strategies, inputs -------------------------- *)

EdgeBreak == "EdgeBreakRetestV1"
FixedRR == "FixedRR_MultiMode"
FixedRRLI == "FixedRiskRewardLossImproved"
SwingEMA == "SwingEMA_RSI_ATR"
SwingATR == "SwingATRBreakevenV2"
HighToSky == "SwingHighToSkyV2"
PSAR == "CustomStoplossWithPSAR"
Sma20 == "Sma20RsiBbAtrStrategy"

\* the strategy classes that define custom_stoploss
Strategies == {EdgeBreak, FixedRR, FixedRRLI, SwingEMA, SwingATR, HighToSky, PSAR, Sma20}

\* the four variants whose stages are multiples of the initial risk
RiskMultiple == {EdgeBreak, FixedRR, FixedRRLI, SwingEMA}

Pairs == {"BTC/USDT", "ETH/USDT"}

Dates == 1..MaxDate

\* dp.runmode.value
RunModes == {"backtest", "hyperopt", "live", "dry_run"}

\* The candle history of the market: close, ATR(14) and parabolic SAR of the
\* candle stamped t, as the indicator library yields them once warmed up.
\* The history repeats with period 3.
History(t) ==
    CASE t % 3 = 1 -> [close |-> Q(100, 1), atr |-> Q(1, 1), sar |-> Q(97, 1)]
      [] t % 3 = 2 -> [close |-> Q(100, 1), atr |-> Q(3, 1), sar |-> Q(104, 1)]
      [] OTHER     -> [close |-> Q(104, 1), atr |-> Q(1, 1), sar |-> Q(90, 1)]

\* Row i of the dataframe an indicator pass works on: the window of len
\* candles starting at date from, whose first warm rows have undefined
\* ATR and SAR (the indicator library's warm-up).
Candle(from, warm, i) ==
    LET t == from + i - 1
    IN  [date  |-> t,
         close |-> History(t).close,
         atr   |-> IF i <= warm THEN NaN ELSE History(t).atr,
         sar   |-> IF i <= warm THEN NaN ELSE History(t).sar]

\* indicator warm-up lengths: the leading rows of a window whose ATR and SAR
\* are NaN
Warmups == {0, 1}

Batch(from, len, warm) == [i \in 1..len |-> Candle(from, warm, i)]

\* every dataframe the host can hand to populate_indicators: the empty one
\* and the windows of at most MaxLen consecutive candles of the history
Batches ==
    { Batch(w[1], w[2], w[3]) :
        w \in { x \in Dates \X (0..MaxLen) \X Warmups :
                    x[1] + x[2] - 1 <= MaxDate /\ x[3] <= x[2] } }

\* <<trade.fee_open, trade.fee_close>>
Fees == {<<Zero, Zero>>, <<Q(1, 1000), Q(1, 1000)>>}

\* trade.open_rate
OpenRates == {Q(100, 1)}

\* current_rate of a tick: none, below the entry, between the triggers of a
\* trade entered at 100, and far above every target
Rates == {Zero, Q(90, 1), Q(101, 1), Q(102, 1), Q(105, 1), Q(135, 1)}

\* current_profit of a tick; None when the host has no ratio to give
Profits == {None, Zero, Q(2, 100), Q(5, 100)}

\* The arguments of a tick.  An argument the strategy's custom_stoploss never
\* reads is drawn from a smaller set: current_time is read by the two ATR
\* strategies only, current_profit by them and Sma20RsiBbAtrStrategy, and
\* current_rate by every strategy but Sma20RsiBbAtrStrategy.
TickTimes(s, open_date) ==
    IF s \in {"SwingATRBreakevenV2", "SwingHighToSkyV2"} THEN {open_date, MaxDate} ELSE {MaxDate}

TickRates(s) ==
    CASE s = "Sma20RsiBbAtrStrategy" -> {Q(101, 1)}
      [] s = "SwingATRBreakevenV2" -> {Zero, Q(90, 1), Q(101, 1), Q(105, 1)}
      [] s = "SwingHighToSkyV2" -> {Zero, Q(101, 1), Q(105, 1)}
      [] OTHER -> Rates

TickProfits(s) ==
    CASE s \in {"SwingATRBreakevenV2", "SwingHighToSkyV2"} -> Profits
      [] s = "Sma20RsiBbAtrStrategy" -> Profits \cup {Q(10, 100)}
      [] OTHER -> {None, Q(5, 100)}

(* ------------------------------- state -------------------------------- *)

VARIABLES
    strategy,     \* the strategy class the bot runs
    get_loc_ffill,\* whether the installed pandas accepts Index.get_loc(method="ffill")
    runmode,      \* dp.runmode.value
    whitelist,    \* the pairs the host trades
    cfg,          \* FixedRR_MultiMode: _mode and the attributes bot_start sets
    custom_info,  \* the per-pair store (custom_info / _cache of the strategy)
    analyzed,     \* dp.get_analyzed_dataframe(pair): the last analyzed dataframe
    trade,        \* the open trade, NoTrade when there is none
    call,         \* the last custom_stoploss call and what it returned
    building,     \* the dataframe a populate_indicators call in progress works on
    signals       \* the dataframe on its way through populate_entry_trend / populate_exit_trend

vars == <<strategy, get_loc_ffill, runmode, whitelist, cfg, custom_info, analyzed, trade,
          call, building, signals>>

\* a key missing from the custom_info dict
NoStore == [present |-> FALSE, rows |-> <<>>]

Store(rows) == [present |-> TRUE, rows |-> rows]

NoTrade == [pair |-> "", open_rate |-> Zero, open_date |-> 0,
            fee_open |-> Zero, fee_close |-> Zero]

NoCall == [made |-> FALSE, current_time |-> 0, current_rate |-> Zero,
           current_profit |-> None, raised |-> FALSE, result |-> None]

\* no populate_indicators call in progress
NoPass == [pair |-> "", df |-> <<>>]

\* no dataframe is on its way through the signal callbacks
NoSignals == [stage |-> "none", df |-> <<>>]

\* what a call gives back: a float, or an exception propagating to the host
Return(x) == [raised |-> FALSE, result |-> x]
Raise == [raised |-> TRUE, result |-> None]

(* --------------------------- configuration ---------------------------- *)

\* FixedRR_MultiMode as constructed: the class attributes, before bot_start.
\* started records that the host has called bot_start (it does so once, for
\* every strategy, before the first candle).
ClassDefaults ==
    [started |-> FALSE, mode |-> "mr",
     rr_ratio |-> Q(12, 10), break_even_R |-> Q(6, 10),
     atr_mult |-> Q(18, 10), stoploss |-> Q(-18, 100)]

\* the presets bot_start installs
PresetMr ==
    [started |-> TRUE, mode |-> "mr",
     rr_ratio |-> Q(12, 10), break_even_R |-> Q(6, 10),
     atr_mult |-> Q(18, 10), stoploss |-> Q(-8, 100)]

PresetTrend ==
    [started |-> TRUE, mode |-> "trend",
     rr_ratio |-> Q(2, 1), break_even_R |-> Q(8, 10),
     atr_mult |-> Q(22, 10), stoploss |-> Q(-18, 100)]

\* str.strip(): drop leading and trailing whitespace
IsSpace(ch) == ch \in {" ", "\t", "\n"}

RECURSIVE LStrip(_)
LStrip(s) == IF s # <<>> /\ IsSpace(Head(s)) THEN LStrip(Tail(s)) ELSE s

RECURSIVE RStrip(_)
RStrip(s) ==
    IF s # <<>> /\ IsSpace(s[Len(s)]) THEN RStrip(SubSeq(s, 1, Len(s) - 1)) ELSE s

Strip(s) == RStrip(LStrip(s))

\* str.lower() on the letters the model uses
LowerChar(ch) ==
    CASE ch = "T" -> "t" [] ch = "R" -> "r" [] ch = "E" -> "e" [] ch = "N" -> "n"
      [] ch = "D" -> "d" [] ch = "M" -> "m" [] OTHER -> ch

\* a lower() that leaves capitals as they are
Lower_Identity(s) == s

\* str.lower(): every character lower-cased
Lower(s) == [i \in 1..Len(s) |-> LowerChar(s[i])]

\* The values config["custom"]["mode"] can hold, by the text str() gives:
\* kind "none" is a missing key or a JSON null, "str" a string, "int" a number.
ModeValues ==
    { [kind |-> "none", text |-> <<>>],
      [kind |-> "str", text |-> <<"m", "r">>],
      [kind |-> "str", text |-> <<"t", "r", "e", "n", "d">>],
      [kind |-> "str", text |-> <<" ", "T", "r", "e", "n", "d", "\n">>],
      [kind |-> "str", text |-> <<"t", "r", "e", "n", "d", "s">>],
      [kind |-> "str", text |-> <<>>],
      [kind |-> "int", text |-> <<"5">>] }

\* self.config as far as bot_start reads it: custom is "absent" (no key),
\* "other" (a value that is no dict) or "dict" with the mode it holds
Configs ==
    { [custom |-> "absent", mode |-> [kind |-> "none", text |-> <<>>]],
      [custom |-> "other", mode |-> [kind |-> "none", text |-> <<>>]] }
    \cup { [custom |-> "dict", mode |-> m] : m \in ModeValues }

\* FixedRR_MultiMode.bot_start
FixedRR_bot_start(config) ==
    LET mode_raw == IF config.custom = "dict" THEN config.mode
                    ELSE [kind |-> "none", text |-> <<>>]
        mode == IF mode_raw.kind # "none" THEN Lower(Strip(mode_raw.text))
                ELSE <<"m", "r">>
        is_trend == mode = <<"t", "r", "e", "n", "d">>
    IN  IF is_trend THEN PresetTrend ELSE PresetMr

\* self.stoploss, the hard floor of each strategy
Stoploss(s, c) ==
    CASE s = EdgeBreak -> Q(-20, 100)
      [] s = FixedRR   -> c.stoploss
      [] s = FixedRRLI -> Q(-18, 100)
      [] s = SwingEMA  -> Q(-20, 100)
      [] s = SwingATR  -> Q(-10, 100)
      [] s = HighToSky -> Q(-34338, 100000)
      [] s = PSAR      -> Q(-8, 100)
      [] s = Sma20     -> Q(-10, 100)

(* ------------------------- populate_indicators ------------------------ *)

\* df[["date", col]].copy().set_index("date") with col = close - atr * mult
RefRows(df, mult) ==
    [i \in 1..Len(df) |->
        [date |-> df[i].date, ref |-> Sub(df[i].close, Mul(df[i].atr, mult))]]

\* df[["date", "close", "atr"]].copy().set_index("date")
AtrRows(df) ==
    [i \in 1..Len(df) |-> [date |-> df[i].date, close |-> df[i].close, atr |-> df[i].atr]]

\* dataframe[["date", "sar"]].copy().set_index("date")
SarRows(df) == [i \in 1..Len(df) |-> [date |-> df[i].date, sar |-> df[i].sar]]

\* EdgeBreakRetestV1.populate_indicators: init_sl_price, atr_mult default 1.8
EdgeBreak_populate_indicators(ci, pair, df) ==
    IF df = <<>> THEN ci
    ELSE [ci EXCEPT ![pair] = Store(RefRows(df, Q(18, 10)))]

\* a pass that adds its rows to the rows the store already holds
FixedRR_populate_indicators_Merging(c, ci, pair, df) ==
    [ci EXCEPT ![pair] = Store(ci[pair].rows \o RefRows(df, c.atr_mult))]

\* FixedRR_MultiMode.populate_indicators: stoploss_rate with self.atr_mult
FixedRR_populate_indicators(c, ci, pair, df) ==
    [ci EXCEPT ![pair] = Store(RefRows(df, c.atr_mult))]

\* FixedRiskRewardLossImproved.populate_indicators: stoploss_rate, atr_mult 2.2
FixedRRLI_populate_indicators(ci, pair, df) ==
    [ci EXCEPT ![pair] = Store(RefRows(df, Q(22, 10)))]

\* SwingEMA_RSI_ATR.populate_indicators: init_sl_price, atr_mult default 2.0
SwingEMA_populate_indicators(ci, pair, df) ==
    IF df = <<>> THEN ci
    ELSE [ci EXCEPT ![pair] = Store(RefRows(df, Q(2, 1)))]

\* SwingATRBreakevenV2.populate_indicators
SwingATR_populate_indicators(ci, pair, df) ==
    IF df = <<>> THEN ci
    ELSE [ci EXCEPT ![pair] = Store(AtrRows(df))]

\* SwingHighToSkyV2.populate_indicators
HighToSky_populate_indicators(ci, pair, df) ==
    [ci EXCEPT ![pair] = Store(AtrRows(df))]

\* CustomStoplossWithPSAR.populate_indicators: the store is written in
\* backtest and hyperopt only
PSAR_populate_indicators(rm, ci, pair, df) ==
    IF rm \in {"backtest", "hyperopt"}
    THEN [ci EXCEPT ![pair] = Store(SarRows(df))]
    ELSE ci

\* Sma20RsiBbAtrStrategy.populate_indicators keeps no store
Sma20_populate_indicators(ci, pair, df) == ci

populate_indicators(s, c, rm, ci, pair, df) ==
    CASE s = EdgeBreak -> EdgeBreak_populate_indicators(ci, pair, df)
      [] s = FixedRR   -> FixedRR_populate_indicators(c, ci, pair, df)
      [] s = FixedRRLI -> FixedRRLI_populate_indicators(ci, pair, df)
      [] s = SwingEMA  -> SwingEMA_populate_indicators(ci, pair, df)
      [] s = SwingATR  -> SwingATR_populate_indicators(ci, pair, df)
      [] s = HighToSky -> HighToSky_populate_indicators(ci, pair, df)
      [] s = PSAR      -> PSAR_populate_indicators(rm, ci, pair, df)
      [] s = Sma20     -> Sma20_populate_indicators(ci, pair, df)

(* ------------------------------ lookups ------------------------------- *)

\* Position of the last row dated at or before t, 0 when there is none: what
\* hist.loc[:t].tail(1) selects on a date-sorted index, and what
\* index.get_loc(t, method="ffill") returns where pandas supports it.
AsOf(rows, t) ==
    LET at == { i \in 1..Len(rows) : rows[i].date <= t }
    IN  IF at = {} THEN 0 ELSE CHOOSE i \in at : \A j \in at : j <= i

\* The row the lookups of the risk-multiple strategies read (0: none),
\* _lookup_init_sl / _lookup_open_sl_abs of the risk-multiple strategies:
\* hist missing or empty -> None; no row at or before open_time -> None
LocPosition(ci, pair, open_time) ==
    LET hist == ci[pair]
    IN  IF ~hist.present \/ hist.rows = <<>> THEN 0 ELSE AsOf(hist.rows, open_time)

\* EdgeBreakRetestV1._lookup_init_sl
EdgeBreak_lookup_init_sl(ci, pair, open_time) ==
    LET pos == LocPosition(ci, pair, open_time)
    IN  IF pos = 0 THEN None ELSE ci[pair].rows[pos].ref

\* FixedRR_MultiMode._lookup_open_sl_abs
FixedRR_lookup_open_sl_abs(ci, pair, open_time) ==
    LET pos == LocPosition(ci, pair, open_time)
    IN  IF pos = 0 THEN None ELSE ci[pair].rows[pos].ref

\* FixedRiskRewardLossImproved._lookup_open_sl_abs
FixedRRLI_lookup_open_sl_abs(ci, pair, open_time) ==
    LET pos == LocPosition(ci, pair, open_time)
    IN  IF pos = 0 THEN None ELSE ci[pair].rows[pos].ref

\* SwingEMA_RSI_ATR._lookup_init_sl
SwingEMA_lookup_init_sl(ci, pair, open_time) ==
    LET pos == LocPosition(ci, pair, open_time)
    IN  IF pos = 0 THEN None ELSE ci[pair].rows[pos].ref

\* try: idx = index.get_loc(when, method="ffill") except Exception: iloc[-1]
\* on a non-empty frame.  get_loc raises KeyError when no row is dated at or
\* before when, and TypeError on every call where pandas has dropped the
\* method argument (ffill = FALSE); either way the last row is read.
FfillPosition(rows, when, ffill) ==
    IF ffill /\ AsOf(rows, when) # 0 THEN AsOf(rows, when) ELSE Len(rows)

\* SwingHighToSkyV2._atr_at (fallback_last = True)
HighToSky_atr_at(ci, pair, when, ffill) ==
    LET df == ci[pair]
    IN  IF ~df.present \/ df.rows = <<>> THEN Zero
        ELSE df.rows[FfillPosition(df.rows, when, ffill)].atr

(* --------------------------- custom_stoploss -------------------------- *)

\* a breakeven that forgets the fees
BreakevenPrice_NoFees(t) == t.open_rate

\* trade.open_rate * (1 + trade.fee_open + trade.fee_close)
BreakevenPrice(t) == Mul(t.open_rate, Add(Add(One, t.fee_open), t.fee_close))

\* the ratio taken the wrong way round
Ratio_Inverted(price, current_rate) == Sub(Div(current_rate, price), One)

\* (price / current_rate) - 1.0
Ratio(price, current_rate) == Sub(Div(price, current_rate), One)

\* guards that forget one of the two conditions
NoReference_RateOnly(init_sl_abs, current_rate) == Le(current_rate, Zero)

NoReference_NoneOnly(init_sl_abs, current_rate) == IsNone(init_sl_abs)

\* if init_sl_abs is None or current_rate <= 0: return self.stoploss.
\* Past this guard the arithmetic of the four risk-multiple strategies has a
\* float for init_sl_abs and a non-zero divisor; Python would raise TypeError
\* on None and ZeroDivisionError on a zero rate.
NoReference(init_sl_abs, current_rate) == IsNone(init_sl_abs) \/ Le(current_rate, Zero)

\* a risk guard that never fires
NoRisk_Never(risk_abs) == FALSE

\* if risk_abs <= 0: return self.stoploss
NoRisk(risk_abs) == Le(risk_abs, Zero)

\* stages that are never armed
Reached_Never(current_rate, trigger) == FALSE

\* a stage armed below its trigger instead of at or above it
Reached_Flipped(current_rate, trigger) == Le(current_rate, trigger)

\* the gate of a stage: if current_rate >= trigger
Reached(current_rate, trigger) == Ge(current_rate, trigger)

\* a lock-in trigger placed beyond every take-profit target
LockTrigger_Late(open_rate, risk_abs) == Add(open_rate, Mul(Q(35, 10), risk_abs))

\* lock_trigger = trade.open_rate + 1.5 * risk_abs (EdgeBreakRetestV1 and
\* SwingEMA_RSI_ATR)
LockTrigger(open_rate, risk_abs) == Add(open_rate, Mul(Q(15, 10), risk_abs))

\* EdgeBreakRetestV1.custom_stoploss (rr_ratio default 2.2)
EdgeBreak_custom_stoploss(ci, pair, t, current_rate) ==
    LET floor == Stoploss(EdgeBreak, ClassDefaults)
        init_sl_abs == EdgeBreak_lookup_init_sl(ci, pair, t.open_date)
        risk_abs == PyMax(Zero, Sub(t.open_rate, init_sl_abs))
        tp_abs == Add(t.open_rate, Mul(Q(22, 10), risk_abs))
        be_trigger == Add(t.open_rate, Mul(Q(7, 10), risk_abs))
        lock_trigger == LockTrigger(t.open_rate, risk_abs)
        r0 == Ratio(init_sl_abs, current_rate)
        r1 == IF Reached(current_rate, be_trigger)
              THEN PyMax(r0, Ratio(BreakevenPrice(t), current_rate)) ELSE r0
        lock_abs == Add(t.open_rate, Mul(Q(4, 10), risk_abs))
        r2 == IF Reached(current_rate, lock_trigger)
              THEN PyMax(r1, Ratio(lock_abs, current_rate)) ELSE r1
        r3 == IF Reached(current_rate, tp_abs)
              THEN PyMax(r2, Ratio(tp_abs, current_rate)) ELSE r2
    IN  IF NoReference(init_sl_abs, current_rate) THEN Return(floor)
        ELSE IF IsNone(init_sl_abs) THEN Raise        \* TypeError: float - None
        ELSE IF NoRisk(risk_abs) THEN Return(floor)
        ELSE IF current_rate = Zero THEN Raise        \* ZeroDivisionError
        ELSE Return(PyMax(r3, floor))

\* FixedRR_MultiMode.custom_stoploss
FixedRR_custom_stoploss(c, ci, pair, t, current_rate) ==
    LET floor == Stoploss(FixedRR, c)
        init_sl_abs == FixedRR_lookup_open_sl_abs(ci, pair, t.open_date)
        risk_abs == PyMax(Zero, Sub(t.open_rate, init_sl_abs))
        tp_abs == Add(t.open_rate, Mul(c.rr_ratio, risk_abs))
        be_abs == BreakevenPrice(t)
        be_trigger_abs == Add(t.open_rate, Mul(c.break_even_R, risk_abs))
        r0 == Ratio(init_sl_abs, current_rate)
        r1 == IF Reached(current_rate, be_trigger_abs)
              THEN PyMax(r0, Ratio(be_abs, current_rate)) ELSE r0
        r2 == IF Reached(current_rate, tp_abs)
              THEN PyMax(r1, Ratio(tp_abs, current_rate)) ELSE r1
    IN  IF NoReference(init_sl_abs, current_rate) THEN Return(floor)
        ELSE IF IsNone(init_sl_abs) THEN Raise        \* TypeError: float - None
        ELSE IF NoRisk(risk_abs) THEN Return(floor)
        ELSE IF current_rate = Zero THEN Raise        \* ZeroDivisionError
        ELSE Return(PyMax(r2, floor))

\* FixedRiskRewardLossImproved.custom_stoploss (rr_ratio 2.0, break_even_R 0.8)
FixedRRLI_custom_stoploss(ci, pair, t, current_rate) ==
    LET floor == Stoploss(FixedRRLI, ClassDefaults)
        init_sl_abs == FixedRRLI_lookup_open_sl_abs(ci, pair, t.open_date)
        risk_abs == PyMax(Zero, Sub(t.open_rate, init_sl_abs))
        tp_abs == Add(t.open_rate, Mul(Q(2, 1), risk_abs))
        be_abs == BreakevenPrice(t)
        be_trigger_abs == Add(t.open_rate, Mul(Q(8, 10), risk_abs))
        r0 == Ratio(init_sl_abs, current_rate)
        r1 == IF Reached(current_rate, be_trigger_abs)
              THEN PyMax(r0, Ratio(be_abs, current_rate)) ELSE r0
        r2 == IF Reached(current_rate, tp_abs)
              THEN PyMax(r1, Ratio(tp_abs, current_rate)) ELSE r1
    IN  IF NoReference(init_sl_abs, current_rate) THEN Return(floor)
        ELSE IF IsNone(init_sl_abs) THEN Raise        \* TypeError: float - None
        ELSE IF NoRisk(risk_abs) THEN Return(floor)
        ELSE IF current_rate = Zero THEN Raise        \* ZeroDivisionError
        ELSE Return(PyMax(r2, floor))

\* SwingEMA_RSI_ATR.custom_stoploss (rr_ratio default 2.0)
SwingEMA_custom_stoploss(ci, pair, t, current_rate) ==
    LET floor == Stoploss(SwingEMA, ClassDefaults)
        init_sl_abs == SwingEMA_lookup_init_sl(ci, pair, t.open_date)
        risk_abs == PyMax(Zero, Sub(t.open_rate, init_sl_abs))
        tp_abs == Add(t.open_rate, Mul(Q(2, 1), risk_abs))
        be_trigger == Add(t.open_rate, Mul(Q(7, 10), risk_abs))
        lock_trigger == LockTrigger(t.open_rate, risk_abs)
        r0 == Ratio(init_sl_abs, current_rate)
        r1 == IF Reached(current_rate, be_trigger)
              THEN PyMax(r0, Ratio(BreakevenPrice(t), current_rate)) ELSE r0
        lock_abs == Add(t.open_rate, Mul(Q(5, 10), risk_abs))
        r2 == IF Reached(current_rate, lock_trigger)
              THEN PyMax(r1, Ratio(lock_abs, current_rate)) ELSE r1
        r3 == IF Reached(current_rate, tp_abs)
              THEN PyMax(r2, Ratio(tp_abs, current_rate)) ELSE r2
    IN  IF NoReference(init_sl_abs, current_rate) THEN Return(floor)
        ELSE IF IsNone(init_sl_abs) THEN Raise        \* TypeError: float - None
        ELSE IF NoRisk(risk_abs) THEN Return(floor)
        ELSE IF current_rate = Zero THEN Raise        \* ZeroDivisionError
        ELSE Return(PyMax(r3, floor))

\* a profit gate that takes an absent ratio for a profit
ProfitAtLeast_AbsentArmed(current_profit, trigger) ==
    IsNone(current_profit) \/ Ge(current_profit, trigger)

\* the gate of a profit stage: if current_profit is not None and
\* current_profit >= trigger
ProfitAtLeast(current_profit, trigger) ==
    ~IsNone(current_profit) /\ Ge(current_profit, trigger)

\* max(sl_candidates): Python's max over a list keeps the first element
\* unless a later one compares greater
RECURSIVE PyMaxList(_)
PyMaxList(xs) ==
    IF Len(xs) = 1 THEN xs[1]
    ELSE PyMax(PyMaxList(SubSeq(xs, 1, Len(xs) - 1)), xs[Len(xs)])

\* SwingATRBreakevenV2.custom_stoploss, with the parameter defaults
\* atr_init_mult 1.5, max_init_sl 0.035, breakeven_trigger 0.015,
\* trail_trigger 0.030, atr_trail_mult 1.0, max_trail_sl 0.05
SwingATR_custom_stoploss(ci, pair, t, current_time, current_rate, current_profit, ffill) ==
    LET floor == Stoploss(SwingATR, ClassDefaults)
        info_df == ci[pair]
        atr_at_open == info_df.rows[FfillPosition(info_df.rows, t.open_date, ffill)].atr
        atr_now == info_df.rows[FfillPosition(info_df.rows, current_time, ffill)].atr
        init_sl_frac == PyMin(Mul(DivGuarded(atr_at_open, t.open_rate), Q(15, 10)),
                              Q(35, 1000))
        c1 == <<Neg(init_sl_frac)>>
        be_ratio == Sub(DivGuarded(BreakevenPrice(t), current_rate), One)
        c2 == IF ProfitAtLeast(current_profit, Q(15, 1000))
              THEN Append(c1, be_ratio) ELSE c1
        trail_frac == PyMin(PyMax(Q(4, 1000),
                                  Mul(DivGuarded(atr_now, current_rate), One)),
                            Q(5, 100))
        c3 == IF ProfitAtLeast(current_profit, Q(30, 1000))
              THEN Append(c2, Neg(trail_frac)) ELSE c2
    IN  IF ~info_df.present THEN Return(floor)
        ELSE IF info_df.rows = <<>> THEN Return(floor)
        ELSE Return(PyMax(PyMaxList(c3), floor))

\* the ATR fraction without the cap
HighToSky_atr_frac_Uncapped(atr_open, open_rate) ==
    Mul(Div(atr_open, open_rate), Q(18, 10))

\* atr_frac = min((atr_open / trade.open_rate) * atr_cap_mult, max_atr_stop)
HighToSky_atr_frac(atr_open, open_rate) ==
    PyMin(Mul(Div(atr_open, open_rate), Q(18, 10)), Q(45, 1000))

\* SwingHighToSkyV2.custom_stoploss: atr_cap_mult 1.8, max_atr_stop 0.045,
\* be_trigger 0.015, trail_trigger 0.035, trail_atr_mult 1.0, max_trail 0.05
HighToSky_custom_stoploss(ci, pair, t, current_time, current_rate, current_profit, ffill) ==
    LET floor == Stoploss(HighToSky, ClassDefaults)
        atr_open == HighToSky_atr_at(ci, pair, t.open_date, ffill)
        atr_frac == HighToSky_atr_frac(atr_open, t.open_rate)
        atr_cap == IF Le(t.open_rate, Zero) \/ Le(atr_open, Zero) THEN floor
                   ELSE Neg(PyMax(Q(5, 1000), atr_frac))
        be_ratio == Sub(DivGuarded(BreakevenPrice(t), current_rate), One)
        sl1 == IF ProfitAtLeast(current_profit, Q(15, 1000))
               THEN PyMax(atr_cap, be_ratio) ELSE atr_cap
        atr_now == HighToSky_atr_at(ci, pair, current_time, ffill)
        trail_frac == PyMin(Q(5, 100),
                            PyMax(Q(4, 1000), Mul(Div(atr_now, current_rate), One)))
        sl2 == IF ProfitAtLeast(current_profit, Q(35, 1000))
                  /\ Gt(atr_now, Zero) /\ Gt(current_rate, Zero)
               THEN PyMax(sl1, Neg(trail_frac)) ELSE sl1
    IN  Return(PyMax(sl2, floor))

\* CustomStoplossWithPSAR.custom_stoploss.  self.dp is set by the host; an
\* open trade is truthy.  df.iloc[-1] raises IndexError on an empty frame.
PSAR_custom_stoploss(ci, an, pair, t, current_rate) ==
    LET df == an[pair]
        sar == df[Len(df)].sar
        rel == Sub(Div(Sub(current_rate, sar), current_rate), One)
    IN  IF (\E p \in Pairs : ci[p].present) /\ ci[pair].present
        THEN IF df = <<>> THEN Raise
             ELSE IF Gt(current_rate, Zero)
                  THEN Return(PyMax(PyMin(rel, Q(-2, 100)), Q(-8, 100)))
                  ELSE Return(One)
        ELSE Return(One)

\* a profit trail that narrows as the profit grows
Sma20_profit_trail_Narrowing(current_profit) ==
    Neg(PyMax(Q(15, 1000), Sub(Q(6, 100), Mul(current_profit, Q(5, 10)))))

\* profit_trail = -max(0.015, min(0.05, current_profit * 0.5))
Sma20_profit_trail(current_profit) ==
    Neg(PyMax(Q(15, 1000), PyMin(Q(5, 100), Mul(current_profit, Q(5, 10)))))

\* an ATR-based width whose wild branch is the tighter one
Sma20_atr_based_WildTighter(atr_pct) ==
    IF Ge(atr_pct, Q(2, 100))
    THEN Neg(PyMin(Q(15, 100), PyMax(Q(8, 1000), Mul(atr_pct, Q(2, 10)))))
    ELSE Neg(PyMin(Q(8, 100), PyMax(Q(8, 1000), Mul(atr_pct, Q(12, 10)))))

\* Sma20RsiBbAtrStrategy.custom_stoploss: wild and atr_based
Sma20_atr_based(atr_pct) ==
    IF Ge(atr_pct, Q(2, 100))
    THEN Neg(PyMin(Q(15, 100), PyMax(Q(12, 1000), Mul(atr_pct, Q(22, 10)))))
    ELSE Neg(PyMin(Q(8, 100), PyMax(Q(8, 1000), Mul(atr_pct, Q(12, 10)))))

\* Sma20RsiBbAtrStrategy.custom_stoploss.  df.iloc[-1] raises IndexError on
\* an empty frame.
Sma20_custom_stoploss(an, pair, current_profit) ==
    LET floor == Stoploss(Sma20, ClassDefaults)
        df == an[pair]
        last == df[Len(df)]
        close == last.close
        atr_val == IF ~IsNaN(last.atr) THEN last.atr ELSE Zero
        atr_pct == IF Gt(close, Zero) THEN Div(atr_val, close) ELSE Zero
        atr_based == Sma20_atr_based(atr_pct)
        profit_trail == Sma20_profit_trail(current_profit)
        sl == IF ~IsNone(current_profit) /\ Gt(current_profit, Q(4, 100))
              THEN PyMax(atr_based, profit_trail) ELSE atr_based
    IN  IF df = <<>> THEN Raise
        ELSE Return(PyMax(sl, floor))

\* custom_stoploss of the running strategy
custom_stoploss(s, c, ffill, ci, an, pair, t, current_time, current_rate, current_profit) ==
    CASE s = EdgeBreak -> EdgeBreak_custom_stoploss(ci, pair, t, current_rate)
      [] s = FixedRR   -> FixedRR_custom_stoploss(c, ci, pair, t, current_rate)
      [] s = FixedRRLI -> FixedRRLI_custom_stoploss(ci, pair, t, current_rate)
      [] s = SwingEMA  -> SwingEMA_custom_stoploss(ci, pair, t, current_rate)
      [] s = SwingATR  -> SwingATR_custom_stoploss(ci, pair, t, current_time,
                                                   current_rate, current_profit, ffill)
      [] s = HighToSky -> HighToSky_custom_stoploss(ci, pair, t, current_time,
                                                    current_rate, current_profit, ffill)
      [] s = PSAR      -> PSAR_custom_stoploss(ci, an, pair, t, current_rate)
      [] s = Sma20     -> Sma20_custom_stoploss(an, pair, current_profit)

(* ----------------------------- behaviour ------------------------------ *)

\* The process after the strategy object is constructed: no store, nothing
\* analyzed, no trade.  The run mode matters to CustomStoplossWithPSAR only
\* and the pandas build to the two get_loc callers only; the other
\* strategies are started in one mode and one build.
TypicalInit(wl) ==
    /\ strategy \in Strategies
    /\ get_loc_ffill \in (IF strategy \in {SwingATR, HighToSky} THEN BOOLEAN ELSE {TRUE})
    /\ runmode \in (IF strategy = PSAR THEN RunModes ELSE {"live"})
    /\ whitelist = wl
    /\ cfg = ClassDefaults
    /\ custom_info = [p \in Pairs |-> NoStore]
    /\ analyzed = [p \in Pairs |-> <<>>]
    /\ trade = NoTrade
    /\ call = NoCall
    /\ building = NoPass
    /\ signals = NoSignals

Init == TypicalInit({"BTC/USDT"})

\* The host calls strategy.bot_start() once before the first candle; only
\* FixedRR_MultiMode overrides it.
BotStart(config) ==
    /\ ~cfg.started
    /\ cfg' = IF strategy = FixedRR THEN FixedRR_bot_start(config)
              ELSE [cfg EXCEPT !.started = TRUE]
    /\ UNCHANGED <<strategy, get_loc_ffill, runmode, whitelist, custom_info, analyzed, trade,
                   call, building, signals>>

\* One indicator pass of the host for a pair: populate_indicators on the
\* candle window, after which the host caches the analyzed dataframe.
IndicatorPass(pair, df) ==
    /\ cfg.started
    /\ building = NoPass
    /\ custom_info' = populate_indicators(strategy, cfg, runmode, custom_info, pair, df)
    /\ analyzed' = [analyzed EXCEPT ![pair] = df]
    /\ call' = NoCall
    /\ UNCHANGED <<strategy, get_loc_ffill, runmode, whitelist, cfg, trade, building, signals>>

\* The execution engine fills an entry order.
OpenTrade(pair, open_rate, open_date, fee_open, fee_close) ==
    /\ cfg.started
    /\ trade = NoTrade
    /\ trade' = [pair |-> pair, open_rate |-> open_rate, open_date |-> open_date,
                 fee_open |-> fee_open, fee_close |-> fee_close]
    /\ call' = NoCall
    /\ UNCHANGED <<strategy, get_loc_ffill, runmode, whitelist, cfg, custom_info, analyzed,
                   building, signals>>

\* The execution engine closes the trade.
CloseTrade ==
    /\ trade # NoTrade
    /\ trade' = NoTrade
    /\ call' = NoCall
    /\ UNCHANGED <<strategy, get_loc_ffill, runmode, whitelist, cfg, custom_info, analyzed,
                   building, signals>>

\* a tick whose call removes what it has read: the pair's store entry and
\* analyzed frame
Tick_Consuming(current_time, current_rate, current_profit) ==
    /\ trade # NoTrade
    /\ current_time >= trade.open_date
    /\ LET out == custom_stoploss(strategy, cfg, get_loc_ffill, custom_info, analyzed,
                                  trade.pair, trade, current_time, current_rate,
                                  current_profit)
       IN  call' = [made |-> TRUE, current_time |-> current_time,
                    current_rate |-> current_rate, current_profit |-> current_profit,
                    raised |-> out.raised, result |-> out.result]
    /\ custom_info' = [custom_info EXCEPT ![trade.pair] = NoStore]
    /\ analyzed' = [analyzed EXCEPT ![trade.pair] = <<>>]
    /\ UNCHANGED <<strategy, get_loc_ffill, runmode, whitelist, cfg, trade, building, signals>>

\* One tick: the host calls custom_stoploss for the open trade.
Tick(current_time, current_rate, current_profit) ==
    /\ trade # NoTrade
    /\ current_time >= trade.open_date
    /\ LET out == custom_stoploss(strategy, cfg, get_loc_ffill, custom_info, analyzed,
                                  trade.pair, trade, current_time, current_rate,
                                  current_profit)
       IN  call' = [made |-> TRUE, current_time |-> current_time,
                    current_rate |-> current_rate, current_profit |-> current_profit,
                    raised |-> out.raised, result |-> out.result]
    /\ UNCHANGED <<strategy, get_loc_ffill, runmode, whitelist, cfg, custom_info, analyzed,
                   trade, building, signals>>

Next ==
    \/ \E config \in Configs : BotStart(config)
    \/ \E pair \in whitelist, df \in Batches : IndicatorPass(pair, df)
    \/ \E pair \in whitelist, open_rate \in OpenRates, open_date \in Dates, fee \in Fees :
            OpenTrade(pair, open_rate, open_date, fee[1], fee[2])
    \/ CloseTrade
    \/ \E current_time \in TickTimes(strategy, trade.open_date),
          current_rate \in TickRates(strategy), current_profit \in TickProfits(strategy) :
            Tick(current_time, current_rate, current_profit)

Spec == Init /\ [][Next]_vars

(* ------------------- a pass interleaved with queries ------------------ *)

\* a pass that builds the new frame inside the store: it starts by adding the
\* first new row to the rows the store holds
BeginPass_InPlace(pair, df) ==
    /\ cfg.started
    /\ building = NoPass
    /\ building' = [pair |-> pair, df |-> df]
    /\ custom_info' =
         [custom_info EXCEPT
            ![pair] = Store(custom_info[pair].rows
                            \o (IF df = <<>> THEN <<>>
                                ELSE <<Head(RefRows(df, cfg.atr_mult))>>))]
    /\ UNCHANGED <<strategy, get_loc_ffill, runmode, whitelist, cfg, analyzed, trade, call,
                   signals>>

\* populate_indicators up to its last statement: the indicator columns and
\* the reference column are computed on the dataframe the host passed in,
\* which no stop-loss query reads.
BeginPass(pair, df) ==
    /\ cfg.started
    /\ building = NoPass
    /\ building' = [pair |-> pair, df |-> df]
    /\ UNCHANGED <<strategy, get_loc_ffill, runmode, whitelist, cfg, custom_info, analyzed,
                   trade, call, signals>>

\* The last statement of populate_indicators, one assignment of the finished
\* frame to custom_info[pair], and the return to the host, which caches the
\* analyzed dataframe.
PublishPass ==
    /\ building # NoPass
    /\ custom_info' = populate_indicators(strategy, cfg, runmode, custom_info,
                                          building.pair, building.df)
    /\ analyzed' = [analyzed EXCEPT ![building.pair] = building.df]
    /\ call' = NoCall
    /\ building' = NoPass
    /\ UNCHANGED <<strategy, get_loc_ffill, runmode, whitelist, cfg, trade, signals>>

\* The two strategies whose pass and lookup are followed statement by
\* statement.
InitInterleaved == TypicalInit({"BTC/USDT"}) /\ strategy \in {SwingEMA, FixedRR}

\* Stop-loss queries may come at any point of a pass: before it, between its
\* computation and its assignment, and after it.
NextInterleaved ==
    \/ \E config \in Configs : BotStart(config)
    \/ \E pair \in whitelist, df \in Batches : BeginPass(pair, df)
    \/ PublishPass
    \/ \E pair \in whitelist, open_date \in Dates :
            OpenTrade(pair, Q(100, 1), open_date, Zero, Zero)
    \/ CloseTrade
    \/ \E current_rate \in {Q(101, 1), Q(105, 1)} : Tick(MaxDate, current_rate, None)

SpecInterleaved == InitInterleaved /\ [][NextInterleaved]_vars

(* ---------------------- trades on several pairs ------------------------ *)

\* Both pairs are traded, so both have a store; the two strategies are the
\* one with a reference-price lookup and the one with an ATR lookup.
InitOrder == TypicalInit(Pairs) /\ strategy \in {FixedRRLI, HighToSky}

\* the dataframes of the passes: the empty one and the full windows
OrderBatches == {df \in Batches : Len(df) \in {0, MaxLen}}

\* The open trade stands for the one being queried; it is on either pair and
\* entered at any candle.
NextOrder ==
    \/ \E config \in Configs : BotStart(config)
    \/ \E pair \in whitelist, df \in OrderBatches : IndicatorPass(pair, df)
    \/ \E pair \in whitelist, open_date \in Dates :
            OpenTrade(pair, Q(100, 1), open_date, Zero, Zero)
    \/ CloseTrade
    \/ \E current_profit \in {None, Q(5, 100)} : Tick(MaxDate, Q(105, 1), current_profit)

SpecOrder == InitOrder /\ [][NextOrder]_vars

(* --------------------------- signal callbacks ------------------------- *)

\* series.shift(1): the value of the row before, NaN on the first row
Shifted(df, i, col) == IF i = 1 THEN NaN ELSE df[i - 1][col]

\* dataframe.loc[mask, col] = value
LocAssign(df, mask, col, value) ==
    [i \in 1..Len(df) |-> IF mask[i] THEN [df[i] EXCEPT ![col] = value] ELSE df[i]]

\* a cell of a column that a .loc assignment has created and not filled
NoTag == "nan"

\* CustomStoplossWithPSAR.populate_entry_trend: the filters of a row
PSAR_strong_up(df, i) ==
    /\ Gt(df[i].ema20, df[i].ema50)
    /\ Gt(df[i].ema50, df[i].ema200)
    /\ Gt(df[i].close, df[i].ema50)

PSAR_mom_ok(df, i) == Gt(df[i].rsi, Q(45, 1)) /\ Gt(df[i].macdhist, Zero)

PSAR_vol_ok(df, i) ==
    /\ Gt(df[i].atrp, Q(5, 1000))
    /\ Lt(df[i].atrp, Q(3, 100))
    /\ Gt(df[i].vol_ma20, Zero)

PSAR_psar_bull_flip(df, i) ==
    /\ Lt(df[i].sar, df[i].close)
    /\ Ge(Shifted(df, i, "sar"), Shifted(df, i, "close"))

PSAR_cond_psar_strict(df, i) ==
    PSAR_psar_bull_flip(df, i) /\ PSAR_strong_up(df, i) /\ PSAR_mom_ok(df, i)
        /\ PSAR_vol_ok(df, i)

PSAR_rsi_rebound(df, i) ==
    /\ Gt(df[i].rsi, Q(35, 1))
    /\ Le(Shifted(df, i, "rsi"), Q(35, 1))
    /\ Gt(df[i].close, df[i].ema20)

PSAR_cond_rsi(df, i) ==
    PSAR_rsi_rebound(df, i) /\ PSAR_strong_up(df, i) /\ PSAR_vol_ok(df, i)

\* the entry assignments with the two rules in the other order
PSAR_populate_entry_trend_FirstWins(df) ==
    LET strict == [i \in 1..Len(df) |-> PSAR_cond_psar_strict(df, i)]
        rsi    == [i \in 1..Len(df) |-> PSAR_cond_rsi(df, i)]
        d1 == LocAssign(df, rsi, "enter_long", One)
        d2 == LocAssign(d1, rsi, "enter_tag", "rsi_rebound_35")
        d3 == LocAssign(d2, strict, "enter_long", One)
    IN  LocAssign(d3, strict, "enter_tag", "psar_bull_flip_strict")

\* CustomStoplossWithPSAR.populate_entry_trend: the masks are computed first,
\* then the four .loc assignments run in code order
PSAR_populate_entry_trend(df) ==
    LET strict == [i \in 1..Len(df) |-> PSAR_cond_psar_strict(df, i)]
        rsi    == [i \in 1..Len(df) |-> PSAR_cond_rsi(df, i)]
        d1 == LocAssign(df, strict, "enter_long", One)
        d2 == LocAssign(d1, strict, "enter_tag", "psar_bull_flip_strict")
        d3 == LocAssign(d2, rsi, "enter_long", One)
    IN  LocAssign(d3, rsi, "enter_tag", "rsi_rebound_35")

PSAR_rsi_tp(df, i) == Gt(df[i].rsi, Q(70, 1))

PSAR_bb_tp(df, i) == Ge(df[i].close, df[i].bb_upper)

\* CustomStoplossWithPSAR.populate_exit_trend
PSAR_populate_exit_trend(df) ==
    LET rsi_tp == [i \in 1..Len(df) |-> PSAR_rsi_tp(df, i)]
        bb_tp  == [i \in 1..Len(df) |-> PSAR_bb_tp(df, i)]
        d1 == LocAssign(df, rsi_tp, "exit_long", One)
        d2 == LocAssign(d1, rsi_tp, "exit_tag", "rsi_overbought_70")
        d3 == LocAssign(d2, bb_tp, "exit_long", One)
    IN  LocAssign(d3, bb_tp, "exit_tag", "bb_upper_tp")

\* The rows populate_indicators hands on: the latest candle with every filter
\* on either side of its threshold ...
PSAR_LatestRows ==
    [ema20 : {Q(7, 1), Q(12, 1)}, ema50 : {Q(6, 1), Q(11, 1)}, ema200 : {Q(5, 1)},
     close : {Q(10, 1)}, rsi : {Q(30, 1), Q(50, 1), Q(75, 1)},
     macdhist : {Q(-1, 1), Q(1, 1)}, atrp : {Q(1, 100), Q(5, 100)},
     vol_ma20 : {One}, sar : {Q(9, 1), Q(11, 1)}, bb_upper : {Q(10, 1), Q(12, 1)},
     enter_long : {NaN}, enter_tag : {NoTag}, exit_long : {NaN}, exit_tag : {NoTag}]

\* ... and the candle before it, of which the entry rules read sar, close and
\* rsi; its indicators may still be in their warm-up
PSAR_EarlierRows ==
    [ema20 : {Q(7, 1)}, ema50 : {Q(6, 1)}, ema200 : {Q(5, 1)},
     close : {Q(10, 1)}, rsi : {NaN, Q(30, 1), Q(75, 1)},
     macdhist : {Q(1, 1)}, atrp : {Q(1, 100)},
     vol_ma20 : {One}, sar : {Q(9, 1), Q(11, 1)}, bb_upper : {Q(12, 1)},
     enter_long : {NaN}, enter_tag : {NoTag}, exit_long : {NaN}, exit_tag : {NoTag}]

PSAR_Frames ==
    {<<r>> : r \in PSAR_LatestRows}
        \cup {<<e, r>> : e \in PSAR_EarlierRows, r \in PSAR_LatestRows}

\* df[col] = value
ColAssign(df, col, value) == [i \in 1..Len(df) |-> [df[i] EXCEPT ![col] = value]]

\* a range regime that includes the threshold
EdgeBreak_range_regime_Inclusive(df, i) == Le(df[i].adx14, Q(20, 1))

\* EdgeBreakRetestV1.populate_entry_trend, adx_trend_th default 20
EdgeBreak_trend_regime(df, i) == Ge(df[i].adx14, Q(20, 1))

EdgeBreak_range_regime(df, i) == Lt(df[i].adx14, Q(20, 1))

\* ema_stack & pullback_tag & reclaim under the trend regime
\* (ema_pullback_window default 1)
EdgeBreak_trend_entry(df, i) ==
    /\ EdgeBreak_trend_regime(df, i)
    /\ Gt(df[i].ema20, df[i].ema50)
    /\ Gt(df[i].ema50, df[i].ema100)
    /\ Le(df[i].low, Mul(df[i].ema20, Q(1001, 1000)))
    /\ Gt(df[i].close, df[i].ema20)

\* mr_rsi_max default 36
EdgeBreak_mr_entry(df, i) ==
    /\ EdgeBreak_range_regime(df, i)
    /\ Le(df[i].close, df[i].bb_lower)
    /\ Le(df[i].rsi, Q(36, 1))

EdgeBreak_has_volume(df, i) == Gt(df[i].volume, Zero)

EdgeBreak_populate_entry_trend(df) ==
    LET d0 == ColAssign(ColAssign(df, "enter_long", Zero), "enter_tag", "")
        trend == [i \in 1..Len(df) |-> EdgeBreak_trend_entry(d0, i) /\ EdgeBreak_has_volume(d0, i)]
        mr    == [i \in 1..Len(df) |-> EdgeBreak_mr_entry(d0, i) /\ EdgeBreak_has_volume(d0, i)]
        d1 == LocAssign(d0, trend, "enter_long", One)
        d2 == LocAssign(d1, trend, "enter_tag", "trend_pullback")
        d3 == LocAssign(d2, mr, "enter_long", One)
    IN  LocAssign(d3, mr, "enter_tag", "mr_dip")

\* _crossed_below(df["ema20"], df["ema50"])
EdgeBreak_ema_cross_down(df, i) ==
    /\ Ge(Shifted(df, i, "ema20"), Shifted(df, i, "ema50"))
    /\ Lt(df[i].ema20, df[i].ema50)

EdgeBreak_exit_rule(df, i) ==
    /\ \/ EdgeBreak_ema_cross_down(df, i)
       \/ Lt(df[i].close, df[i].ema20)
       \/ Ge(df[i].close, df[i].bb_mid)
       \/ Ge(df[i].rsi, Q(72, 1))
    /\ EdgeBreak_has_volume(df, i)

\* EdgeBreakRetestV1.populate_exit_trend
EdgeBreak_populate_exit_trend(df) ==
    LET d0 == ColAssign(ColAssign(df, "exit_long", Zero), "exit_tag", "")
        rule == [i \in 1..Len(df) |-> EdgeBreak_exit_rule(d0, i)]
        d1 == LocAssign(d0, rule, "exit_long", One)
    IN  LocAssign(d1, rule, "exit_tag", "rule_exit")

\* The rows EdgeBreakRetestV1.populate_indicators hands on: the latest candle
\* with every filter on either side of its threshold, ADX on it, below it
\* and undefined ...
EdgeBreak_LatestRows ==
    [adx14 : {NaN, Q(15, 1), Q(20, 1)}, ema20 : {Q(10, 1)}, ema50 : {Q(9, 1), Q(11, 1)},
     ema100 : {Q(8, 1)}, low : {Q(10, 1), Q(11, 1)}, close : {Q(9, 1), Q(11, 1)},
     bb_lower : {Q(8, 1), Q(12, 1)}, bb_mid : {Q(10, 1)},
     rsi : {Q(30, 1), Q(50, 1), Q(75, 1)}, volume : {Zero, Q(5, 1)},
     enter_long : {NaN}, enter_tag : {NoTag}, exit_long : {NaN}, exit_tag : {NoTag}]

\* ... and the candle before it, of which the exit rule reads ema20 and ema50
EdgeBreak_EarlierRows ==
    [adx14 : {Q(20, 1)}, ema20 : {Q(10, 1)}, ema50 : {Q(9, 1), Q(11, 1)},
     ema100 : {Q(8, 1)}, low : {Q(10, 1)}, close : {Q(11, 1)},
     bb_lower : {Q(8, 1)}, bb_mid : {Q(10, 1)},
     rsi : {Q(50, 1)}, volume : {Q(5, 1)},
     enter_long : {NaN}, enter_tag : {NoTag}, exit_long : {NaN}, exit_tag : {NoTag}]

EdgeBreak_Frames ==
    {<<r>> : r \in EdgeBreak_LatestRows}
        \cup {<<e, r>> : e \in EdgeBreak_EarlierRows, r \in EdgeBreak_LatestRows}

SignalFrames(s) ==
    CASE s = PSAR -> PSAR_Frames
      [] s = EdgeBreak -> EdgeBreak_Frames

populate_entry_trend(s, df) ==
    CASE s = PSAR -> PSAR_populate_entry_trend(df)
      [] s = EdgeBreak -> EdgeBreak_populate_entry_trend(df)

populate_exit_trend(s, df) ==
    CASE s = PSAR -> PSAR_populate_exit_trend(df)
      [] s = EdgeBreak -> EdgeBreak_populate_exit_trend(df)

\* The host has run populate_indicators on a window of candles.
InitSignals ==
    /\ strategy \in {PSAR, EdgeBreak}
    /\ get_loc_ffill = TRUE
    /\ runmode = "live"
    /\ whitelist = {"BTC/USDT"}
    /\ cfg = ClassDefaults
    /\ custom_info = [p \in Pairs |-> NoStore]
    /\ analyzed = [p \in Pairs |-> <<>>]
    /\ trade = NoTrade
    /\ call = NoCall
    /\ building = NoPass
    /\ signals \in {[stage |-> "indicators", df |-> df] : df \in SignalFrames(strategy)}

\* The host calls populate_entry_trend on the dataframe populate_indicators
\* returned ...
PopulateEntryTrend ==
    /\ signals.stage = "indicators"
    /\ signals' = [stage |-> "entry", df |-> populate_entry_trend(strategy, signals.df)]
    /\ UNCHANGED <<strategy, get_loc_ffill, runmode, whitelist, cfg, custom_info, analyzed,
                   trade, call, building>>

\* ... and populate_exit_trend on the result.
PopulateExitTrend ==
    /\ signals.stage = "entry"
    /\ signals' = [stage |-> "exit", df |-> populate_exit_trend(strategy, signals.df)]
    /\ UNCHANGED <<strategy, get_loc_ffill, runmode, whitelist, cfg, custom_info, analyzed,
                   trade, call, building>>

NextSignals == PopulateEntryTrend \/ PopulateExitTrend

SpecSignals == InitSignals /\ [][NextSignals]_vars

(* ------------------------------ properties ---------------------------- *)

\* the hard floor of the running strategy
Floor == Stoploss(strategy, cfg)

\* a custom_stoploss call has returned a value
Returned == call.made /\ ~call.raised

\* the stop price the returned ratio implies: current_rate * (1 + ratio)
ImpliedStop == Mul(call.current_rate, Add(One, call.result))

\* what custom_stoploss of the running strategy returns for the open trade
\* in the current state at another price and profit
ResultAt(current_rate, current_profit) ==
    custom_stoploss(strategy, cfg, get_loc_ffill, custom_info, analyzed, trade.pair,
                    trade, call.current_time, current_rate, current_profit)

\* the reference the risk-multiple strategies look up for the trade's entry
EntryReference ==
    CASE strategy = EdgeBreak -> EdgeBreak_lookup_init_sl(custom_info, trade.pair, trade.open_date)
      [] strategy = FixedRR   -> FixedRR_lookup_open_sl_abs(custom_info, trade.pair, trade.open_date)
      [] strategy = FixedRRLI -> FixedRRLI_lookup_open_sl_abs(custom_info, trade.pair, trade.open_date)
      [] strategy = SwingEMA  -> SwingEMA_lookup_init_sl(custom_info, trade.pair, trade.open_date)

\* risk_amount > 0: the reference is a number below the entry price
PositiveRisk ==
    /\ ~IsNone(EntryReference)
    /\ Gt(Sub(trade.open_rate, EntryReference), Zero)

RiskAmount == Sub(trade.open_rate, EntryReference)

\* k of the breakeven trigger open_rate + k * risk_amount
BreakevenR ==
    CASE strategy = FixedRR   -> cfg.break_even_R
      [] strategy = FixedRRLI -> Q(8, 10)
      [] OTHER                -> Q(7, 10)

\* the store of the open trade's pair is missing or empty
StoreMissingOrEmpty ==
    ~custom_info[trade.pair].present \/ custom_info[trade.pair].rows = <<>>

\* C1: every returned ratio is >= the strategy's hard floor self.stoploss,
\* for every variant and every input.
C1_FloorInvariant == Returned => Ge(call.result, Floor)

\* C2: in the risk-multiple variants, with risk_amount > 0 and
\* current_rate >= open_rate + k * risk_amount, the implied stop price is
\* >= open_rate * (1 + fee_open + fee_close).
C2_BreakevenNonLoss ==
    (/\ strategy \in RiskMultiple
     /\ call.made
     /\ PositiveRisk
     /\ Ge(call.current_rate, Add(trade.open_rate, Mul(BreakevenR, RiskAmount))))
    => (/\ ~call.raised
        /\ Ge(ImpliedStop,
              Mul(trade.open_rate, Add(One, Add(trade.fee_open, trade.fee_close)))))

\* C2 witness: a risk-multiple call past the breakeven trigger, with fees,
\* whose implied stop is exactly the fee-aware breakeven price.
C2_Witness ==
    /\ strategy \in RiskMultiple
    /\ Returned
    /\ PositiveRisk
    /\ Ge(call.current_rate, Add(trade.open_rate, Mul(BreakevenR, RiskAmount)))
    /\ Gt(trade.fee_open, Zero)
    /\ ImpliedStop = Mul(trade.open_rate, Add(One, Add(trade.fee_open, trade.fee_close)))

\* the stop price custom_stoploss implies for the open trade at another price
StopPriceAt(current_rate) ==
    Mul(current_rate, Add(One, ResultAt(current_rate, call.current_profit).result))

\* C3 as stated, on the risk-multiple variants: for a fixed trade and store
\* and prices p1 <= p2, the ratio returned at p2 is >= the ratio returned at p1.
C3_RatioMonotonic ==
    (strategy \in RiskMultiple /\ Returned) =>
        \A p1 \in TickRates(strategy) :
            (Le(p1, call.current_rate) /\ ~ResultAt(p1, call.current_profit).raised)
            => Ge(call.result, ResultAt(p1, call.current_profit).result)

\* C3 amended: in the risk-multiple variants, for a fixed trade and store and
\* prices p1 <= p2, the stop price implied at p2 is >= the stop price implied
\* at p1 (the ratio itself, taken against the rising price, may fall).
C3_StopPriceMonotonic ==
    (strategy \in RiskMultiple /\ call.made) =>
        /\ ~call.raised
        /\ \A p1 \in TickRates(strategy) :
              Le(p1, call.current_rate) => Ge(ImpliedStop, StopPriceAt(p1))

\* C3 witness: a risk-multiple call past the take-profit target whose stop
\* price lies above the one implied at a lower price before the breakeven
\* trigger, while its ratio is lower than the ratio at a still lower price.
C3_Witness ==
    /\ strategy \in RiskMultiple
    /\ Returned
    /\ PositiveRisk
    /\ \E p1 \in TickRates(strategy) :
          /\ Gt(p1, Zero)
          /\ Lt(p1, call.current_rate)
          /\ Lt(StopPriceAt(p1), ImpliedStop)
    /\ \E p0 \in TickRates(strategy) :
          /\ Gt(p0, Zero)
          /\ Lt(p0, call.current_rate)
          /\ Gt(ResultAt(p0, call.current_profit).result, call.result)

\* the row the entry-time lookup of the running strategy reads for the open
\* trade, 0 when it reads none ("absent")
EntryLookupPosition ==
    IF strategy \in RiskMultiple
    THEN LocPosition(custom_info, trade.pair, trade.open_date)
    ELSE IF StoreMissingOrEmpty THEN 0
    ELSE FfillPosition(custom_info[trade.pair].rows, trade.open_date, get_loc_ffill)

\* C4: the lookup by entry time returns the row of the greatest timestamp
\* <= T, never a row stamped after T, and is absent when the pair has no
\* store, the store is empty or T precedes every stored timestamp; in every
\* variant that looks its reference up in the store.
C4_AsOfCorrect ==
    (call.made /\ strategy \in RiskMultiple \cup {SwingATR, HighToSky}) =>
        LET rows == custom_info[trade.pair].rows
            pos == EntryLookupPosition
            atOrBefore == { i \in 1..Len(rows) : rows[i].date <= trade.open_date }
        IN  /\ (StoreMissingOrEmpty \/ atOrBefore = {}) => pos = 0
            /\ pos # 0 => /\ rows[pos].date <= trade.open_date
                          /\ \A i \in atOrBefore : rows[i].date <= rows[pos].date

\* C5 as stated: in every variant that keeps a store, a call for a pair whose
\* store is missing or empty returns exactly self.stoploss.
C5_MissingStoreFloor ==
    (call.made /\ strategy # Sma20 /\ StoreMissingOrEmpty)
    => (~call.raised /\ call.result = Floor)

\* C5 amended: a call for a pair whose store is missing or empty returns
\* exactly self.stoploss in the risk-multiple variants and in
\* SwingATRBreakevenV2 whatever the price and profit are, and in
\* SwingHighToSkyV2 when current_profit is absent or below be_trigger.
C5_MissingStoreFloorAmended ==
    (/\ call.made
     /\ StoreMissingOrEmpty
     /\ \/ strategy \in RiskMultiple \cup {SwingATR}
        \/ /\ strategy = HighToSky
           /\ (IsNone(call.current_profit) \/ Lt(call.current_profit, Q(15, 1000))))
    => (~call.raised /\ call.result = Floor)

\* C5 witness: a risk-multiple call at a price above the entry, for a pair
\* without store, that returned the floor.
C5_Witness ==
    /\ strategy \in RiskMultiple
    /\ Returned
    /\ StoreMissingOrEmpty
    /\ Gt(call.current_rate, trade.open_rate)
    /\ ~IsNone(call.current_profit)
    /\ call.result = Floor

\* C6: SwingEMA_RSI_ATR (RR 2.0, breakeven at 0.7R), entry 100, entry-time
\* reference 98, fees 0.001 each: the call returns 98/101 - 1 at price 101,
\* (100 * 1.002)/102 - 1 at price 102 and 104/105 - 1 at price 105.
C6_Scenario ==
    (/\ strategy = SwingEMA
     /\ call.made
     /\ trade.open_rate = Q(100, 1)
     /\ trade.fee_open = Q(1, 1000)
     /\ trade.fee_close = Q(1, 1000)
     /\ EntryReference = Q(98, 1))
    => /\ ~call.raised
       /\ call.current_rate = Q(101, 1) => call.result = Sub(Q(98, 101), One)
       /\ call.current_rate = Q(102, 1)
            => call.result = Sub(Div(Mul(Q(100, 1), Q(1002, 1000)), Q(102, 1)), One)
       /\ call.current_rate = Q(105, 1) => call.result = Sub(Q(104, 105), One)

\* C6 witness: the scenario's call at price 105, trailing the target 104.
C6_Witness ==
    /\ strategy = SwingEMA
    /\ Returned
    /\ trade.open_rate = Q(100, 1)
    /\ trade.fee_open = Q(1, 1000)
    /\ trade.fee_close = Q(1, 1000)
    /\ EntryReference = Q(98, 1)
    /\ call.current_rate = Q(105, 1)
    /\ ImpliedStop = Q(104, 1)

\* C7: for current price > 0, entry price > 0 and non-negative fees the
\* returned ratio lies in (-1, 0].
C7_ResultRange ==
    (/\ Returned
     /\ Gt(call.current_rate, Zero)
     /\ Gt(trade.open_rate, Zero)
     /\ Ge(trade.fee_open, Zero)
     /\ Ge(trade.fee_close, Zero))
    => (Gt(call.result, Q(-1, 1)) /\ Le(call.result, Zero))

\* C8 as stated: in every variant a call with current_rate <= 0 returns
\* exactly self.stoploss.
C8_PriceGuard ==
    (call.made /\ Le(call.current_rate, Zero)) => (~call.raised /\ call.result = Floor)

\* C8 amended: in the risk-multiple variants a call with current_rate <= 0
\* returns exactly self.stoploss, for any trade, profit and store contents.
C8_PriceGuardRiskMultiple ==
    (strategy \in RiskMultiple /\ call.made /\ Le(call.current_rate, Zero))
    => (~call.raised /\ call.result = Floor)

\* C8 witness: a risk-multiple call at price 0 for a trade whose reference is
\* in the store and below the entry price.
C8_Witness ==
    /\ strategy \in RiskMultiple
    /\ Returned
    /\ PositiveRisk
    /\ Le(call.current_rate, Zero)
    /\ call.result = Floor

\* C9: custom_stoploss of every variant returns a defined ratio and never
\* raises, for every input.
C9_Total == call.made => (~call.raised /\ ~IsNaN(call.result))

\* the stored value custom_stoploss works from: init_sl_price in the
\* risk-multiple stores, atr in the two ATR stores
ReferenceOf(row) == IF strategy \in RiskMultiple THEN row.ref ELSE row.atr

WithReference(row, v) ==
    IF strategy \in RiskMultiple THEN [row EXCEPT !.ref = v] ELSE [row EXCEPT !.atr = v]

\* The store with every undefined reference replaced by the last available
\* value, and with a row stamped T put in front when T precedes every row.
FilledRows(rows, T) ==
    LET defined == { i \in 1..Len(rows) : ~IsNaN(ReferenceOf(rows[i])) }
        last == CHOOSE i \in defined : \A j \in defined : j <= i
        v == ReferenceOf(rows[last])
        filled == [ i \in 1..Len(rows) |->
                      IF IsNaN(ReferenceOf(rows[i])) THEN WithReference(rows[i], v)
                      ELSE rows[i] ]
    IN  IF AsOf(rows, T) = 0
        THEN <<WithReference([rows[1] EXCEPT !.date = T], v)>> \o filled
        ELSE filled

\* C10: when the value found for the entry time is missing or NaN and the
\* store is non-empty, the call returns what it returns on the store whose
\* gaps are filled with the last available value; when the store is empty it
\* returns the hard floor.
C10_UndefinedReferenceFallback ==
    (call.made /\ strategy \in RiskMultiple \cup {SwingATR, HighToSky}) =>
        LET rows == custom_info[trade.pair].rows
            at == AsOf(rows, trade.open_date)
            undefined == at = 0 \/ IsNaN(ReferenceOf(rows[at]))
            available == \E i \in 1..Len(rows) : ~IsNaN(ReferenceOf(rows[i]))
            filled == [custom_info EXCEPT
                         ![trade.pair].rows = FilledRows(rows, trade.open_date)]
        IN  /\ (custom_info[trade.pair].present /\ rows = <<>>)
                => (~call.raised /\ call.result = Floor)
            /\ (~StoreMissingOrEmpty /\ undefined /\ available)
                => call = [call EXCEPT
                     !.raised = custom_stoploss(strategy, cfg, get_loc_ffill, filled,
                                    analyzed, trade.pair, trade, call.current_time,
                                    call.current_rate, call.current_profit).raised,
                     !.result = custom_stoploss(strategy, cfg, get_loc_ffill, filled,
                                    analyzed, trade.pair, trade, call.current_time,
                                    call.current_rate, call.current_profit).result]

\* C11: in the risk-multiple variants, when the entry price is <= the
\* reference looked up for the entry time (risk_amount <= 0), the call returns
\* exactly the hard floor, whatever the current price is: no breakeven,
\* lock-in or take-profit candidate is applied.
C11_NonPositiveRisk ==
    (/\ strategy \in RiskMultiple
     /\ call.made
     /\ ~IsNone(EntryReference)
     /\ Le(trade.open_rate, EntryReference))
    => (~call.raised /\ call.result = Floor)

\* C11 witness: a risk-multiple call at a price above the entry, hence at or
\* above every trigger of a zero risk, with the reference above the entry
\* price, that returned the floor.
C11_Witness ==
    /\ strategy \in RiskMultiple
    /\ Returned
    /\ ~IsNone(EntryReference)
    /\ Gt(EntryReference, trade.open_rate)
    /\ Gt(call.current_rate, EntryReference)
    /\ call.result = Floor

SwingATR_Candidates ==
    LET rows == custom_info[trade.pair].rows
        atr_at_open == rows[FfillPosition(rows, trade.open_date, get_loc_ffill)].atr
        atr_now == rows[FfillPosition(rows, call.current_time, get_loc_ffill)].atr
        init_sl_frac == PyMin(Mul(DivGuarded(atr_at_open, trade.open_rate), Q(15, 10)),
                              Q(35, 1000))
        be_ratio == Sub(DivGuarded(BreakevenPrice(trade), call.current_rate), One)
        trail_frac == PyMin(PyMax(Q(4, 1000), DivGuarded(atr_now, call.current_rate)),
                            Q(5, 100))
        gated(trigger) == ~IsNone(call.current_profit) /\ Ge(call.current_profit, trigger)
    IN  IF StoreMissingOrEmpty THEN {Floor}
        ELSE {Floor, Neg(init_sl_frac)}
             \cup (IF gated(Q(15, 1000)) THEN {be_ratio} ELSE {})
             \cup (IF gated(Q(30, 1000)) THEN {Neg(trail_frac)} ELSE {})

\* The candidates SwingEMA_RSI_ATR.custom_stoploss composes once it has a
\* reference below the entry and a positive price: the floor, the initial
\* stop and the candidate of every stage whose price gate is true.
SwingEMA_Candidates ==
    LET R == RiskAmount
        stage(k, price) ==
            IF Ge(call.current_rate, Add(trade.open_rate, Mul(k, R)))
            THEN {Ratio(price, call.current_rate)} ELSE {}
    IN  IF ~PositiveRisk \/ Le(call.current_rate, Zero) THEN {Floor}
        ELSE {Floor, Ratio(EntryReference, call.current_rate)}
             \cup stage(Q(7, 10), BreakevenPrice(trade))
             \cup stage(Q(15, 10), Add(trade.open_rate, Mul(Q(5, 10), R)))
             \cup stage(Q(2, 1), Add(trade.open_rate, Mul(Q(2, 1), R)))

\* The candidates Sma20RsiBbAtrStrategy.custom_stoploss composes: the floor,
\* the ATR-adaptive stop and, past 4% profit, the profit lock.
Sma20_Candidates ==
    LET last == analyzed[trade.pair][Len(analyzed[trade.pair])]
        atr_val == IF ~IsNaN(last.atr) THEN last.atr ELSE Zero
        atr_pct == IF Gt(last.close, Zero) THEN Div(atr_val, last.close) ELSE Zero
        atr_based == IF Ge(atr_pct, Q(2, 100))
                     THEN Neg(PyMin(Q(15, 100), PyMax(Q(12, 1000), Mul(atr_pct, Q(22, 10)))))
                     ELSE Neg(PyMin(Q(8, 100), PyMax(Q(8, 1000), Mul(atr_pct, Q(12, 10)))))
        profit_trail == Neg(PyMax(Q(15, 1000),
                                  PyMin(Q(5, 100), Mul(call.current_profit, Q(5, 10)))))
    IN  {Floor, atr_based}
        \cup (IF ~IsNone(call.current_profit) /\ Gt(call.current_profit, Q(4, 100))
              THEN {profit_trail} ELSE {})

\* C13: the returned ratio is the maximum of the hard floor, the baseline
\* candidate and the candidates of exactly those stages whose gate is true:
\* it is one of them and no lower than any of them.
C13_MaxComposition ==
    (Returned /\ strategy \in {SwingATR, SwingEMA, Sma20}) =>
        LET S == CASE strategy = SwingATR -> SwingATR_Candidates
                   [] strategy = SwingEMA -> SwingEMA_Candidates
                   [] strategy = Sma20    -> Sma20_Candidates
        IN  /\ call.result \in S
            /\ \A x \in S : Ge(call.result, x)

\* RR of the take-profit target open_rate + RR * risk_amount
RewardRisk ==
    CASE strategy = EdgeBreak -> Q(22, 10)
      [] strategy = FixedRR   -> cfg.rr_ratio
      [] strategy = FixedRRLI -> Q(2, 1)
      [] strategy = SwingEMA  -> Q(2, 1)

TargetPrice == Add(trade.open_rate, Mul(RewardRisk, RiskAmount))

\* C14 as stated: in the risk-multiple variants, with risk_amount > 0 and
\* current_rate >= open_rate + RR * risk_amount, the implied stop price equals
\* the target price, however far the price has overshot the target.
C14_TakeProfitTrail ==
    (/\ strategy \in RiskMultiple
     /\ call.made
     /\ PositiveRisk
     /\ Ge(call.current_rate, TargetPrice))
    => (~call.raised /\ ImpliedStop = TargetPrice)

\* C14 amended: under the same conditions the implied stop price is the
\* greatest of the target price, the fee-aware breakeven price and
\* current_rate * (1 + self.stoploss); it is the target itself while the
\* target is at or above both, and the floor's price once the overshoot takes
\* target / current_rate - 1 below self.stoploss.
C14_TakeProfitTrailOrFloor ==
    (/\ strategy \in RiskMultiple
     /\ call.made
     /\ PositiveRisk
     /\ Ge(call.current_rate, TargetPrice))
    => LET be_price == Mul(trade.open_rate, Add(One, Add(trade.fee_open, trade.fee_close)))
           floor_price == Mul(call.current_rate, Add(One, Floor))
       IN  /\ ~call.raised
           /\ ImpliedStop = PyMax(PyMax(TargetPrice, be_price), floor_price)
           /\ (Ge(TargetPrice, be_price) /\ Ge(TargetPrice, floor_price))
                => ImpliedStop = TargetPrice

\* C14 witness: a risk-multiple call with the price beyond the target whose
\* implied stop is the target price, above the breakeven price.
C14_Witness ==
    /\ strategy \in RiskMultiple
    /\ Returned
    /\ PositiveRisk
    /\ Gt(call.current_rate, TargetPrice)
    /\ Gt(TargetPrice, Mul(trade.open_rate, Add(One, Add(trade.fee_open, trade.fee_close))))
    /\ Gt(trade.fee_open, Zero)
    /\ ImpliedStop = TargetPrice

\* C15: in SwingATRBreakevenV2, SwingHighToSkyV2 and Sma20RsiBbAtrStrategy a
\* call with current_profit absent arms no profit stage: its outcome is that
\* of the same call with a profit ratio of 0, which is below every trigger.
C15_AbsentProfit ==
    (/\ call.made
     /\ strategy \in {SwingATR, HighToSky, Sma20}
     /\ IsNone(call.current_profit))
    => [raised |-> call.raised, result |-> call.result]
         = ResultAt(call.current_rate, Zero)

\* C15 witness: a call with current_profit absent that returned a stop from
\* the stored ATR, tighter than the floor, where a 5% profit would have armed
\* a stage and given another ratio.
C15_Witness ==
    /\ strategy \in {SwingATR, HighToSky}
    /\ Returned
    /\ IsNone(call.current_profit)
    /\ ~StoreMissingOrEmpty
    /\ Gt(call.current_rate, Zero)
    /\ Gt(call.result, Floor)
    /\ ResultAt(call.current_rate, Q(5, 100)).result # call.result

\* the candle timestamps of a dataframe or of a store, in order
DatesOf(rows) == [i \in 1..Len(rows) |-> rows[i].date]

\* the store of the pair holds exactly one entry per candle timestamp of df.
\* The host caches the dataframe of a completed pass as the pair's analyzed
\* dataframe, so the batch of the pass just made is analyzed'[pair].
HoldsExactly(store, df) == store.present /\ DatesOf(store.rows) = DatesOf(df)

\* C16 as stated: after populate_indicators completes for a pair with any
\* batch, the empty one included, in any run mode, the pair's store holds
\* exactly one entry per candle timestamp of the batch and nothing from an
\* earlier pass (in every variant that keeps a store).
C16_ReplaceOnWrite ==
    [][\A pair \in Pairs :
          (strategy # Sma20 /\ IndicatorPass(pair, analyzed'[pair]))
          => HoldsExactly(custom_info'[pair], analyzed'[pair])]_vars

\* populate_indicators of the running strategy writes the store for this
\* batch: EdgeBreakRetestV1, SwingEMA_RSI_ATR and SwingATRBreakevenV2 return
\* before the write on an empty batch, CustomStoplossWithPSAR writes in
\* backtest and hyperopt only, Sma20RsiBbAtrStrategy has no store.
WritesStore(df) ==
    CASE strategy \in {EdgeBreak, SwingEMA, SwingATR} -> df # <<>>
      [] strategy \in {FixedRR, FixedRRLI, HighToSky} -> TRUE
      [] strategy = PSAR -> runmode \in {"backtest", "hyperopt"}
      [] strategy = Sma20 -> FALSE

\* C16 amended: after a pass that writes the store, the pair's store holds
\* exactly one entry per candle timestamp of the batch and nothing from an
\* earlier pass; after a pass that does not write, the store of the pair is
\* what it was before the pass; the stores of the other pairs never change.
C16_ReplaceOnWriteWhenWritten ==
    [][\A pair \in Pairs :
          IndicatorPass(pair, analyzed'[pair])
          => LET df == analyzed'[pair]
             IN  /\ WritesStore(df) => HoldsExactly(custom_info'[pair], df)
                 /\ ~WritesStore(df) => custom_info'[pair] = custom_info[pair]
                 /\ \A other \in Pairs \ {pair} :
                        custom_info'[other] = custom_info[other]]_vars

\* C16 witness: FixedRR_MultiMode after a pass over a one-candle batch dated
\* after the entry of the open trade: the store holds that candle alone.
C16_Witness ==
    /\ strategy = FixedRR
    /\ trade # NoTrade
    /\ ~call.made
    /\ Len(analyzed[trade.pair]) = 1
    /\ analyzed[trade.pair][1].date > trade.open_date
    /\ HoldsExactly(custom_info[trade.pair], analyzed[trade.pair])

\* the store a completed pass of the running strategy over df leaves for a
\* pair that had none
SnapshotOf(pair, df) ==
    populate_indicators(strategy, cfg, runmode, [p \in Pairs |-> NoStore], pair, df)[pair]

\* C17: whenever a stop-loss query can read it, before, during and after an
\* indicator pass, the store of a pair is the complete snapshot of one pass
\* (or absent, before the first): never a half-built or mixed store; and the
\* query made during a pass returns what the snapshot in place gives.
C17_NoPartialReads ==
    /\ \A pair \in Pairs :
          \/ custom_info[pair] = NoStore
          \/ \E df \in Batches : custom_info[pair] = SnapshotOf(pair, df)
    /\ call.made =>
          [raised |-> call.raised, result |-> call.result]
            = ResultAt(call.current_rate, call.current_profit)

\* C17 witness: a query answered from the snapshot of the previous pass while
\* a pass over another batch of the same pair is in progress.
C17_Witness ==
    /\ building # NoPass
    /\ building.pair = trade.pair
    /\ Returned
    /\ PositiveRisk
    /\ custom_info[trade.pair] # SnapshotOf(trade.pair, building.df)
    /\ building.df # <<>>
    /\ call.result = Ratio(EntryReference, call.current_rate)

\* the other trades that may be open beside the queried one: on either pair,
\* entered at any candle
OtherTrades ==
    {[pair |-> p, open_rate |-> Q(100, 1), open_date |-> d,
      fee_open |-> Zero, fee_close |-> Zero] : p \in Pairs, d \in Dates}

\* what custom_stoploss returns for trade t at the last candle, 5% up, when
\* the store is ci and the analyzed frames are an
AnswerFor(ci, an, t) ==
    custom_stoploss(strategy, cfg, get_loc_ffill, ci, an, t.pair, t, MaxDate,
                    Q(105, 1), Q(5, 100))

\* the stores of the pairs other than pair replaced by the result of a pass
\* over df
WithOthers(ci, pair, df) ==
    [p \in Pairs |-> IF p = pair THEN ci[p] ELSE SnapshotOf(p, df)]

\* C18: a stop-loss query changes the answer of no other query, whatever trade
\* on whatever pair it is for, so the answers for a set of open trades do not
\* depend on the order of the queries; and the answer for a trade is the same
\* whatever the store and the analyzed frames hold for the other pairs.
C18_OrderIndependence ==
    [][(call'.made /\ trade # NoTrade /\ trade' = trade) =>
         /\ \A t \in OtherTrades :
               AnswerFor(custom_info', analyzed', t) = AnswerFor(custom_info, analyzed, t)
         /\ \A df \in Batches :
               [raised |-> call'.raised, result |-> call'.result]
                 = custom_stoploss(strategy, cfg, get_loc_ffill,
                                   WithOthers(custom_info, trade.pair, df),
                                   [p \in Pairs |-> IF p = trade.pair THEN analyzed[p] ELSE df],
                                   trade.pair, trade, call'.current_time,
                                   call'.current_rate, call'.current_profit)]_vars

\* C18 witness: a query answered above the floor while a trade on the same
\* pair entered at another candle gets a different answer from the same
\* store.
C18_Witness ==
    /\ Returned
    /\ strategy \in {HighToSky, FixedRRLI}
    /\ Gt(call.result, Floor)
    /\ \E t \in OtherTrades :
          /\ t.pair = trade.pair
          /\ t.open_date # trade.open_date
          /\ ~AnswerFor(custom_info, analyzed, t).raised
          /\ AnswerFor(custom_info, analyzed, t)
               # AnswerFor(custom_info, analyzed, [t EXCEPT !.open_date = trade.open_date])

\* C19: a custom_stoploss call, whether it returns or raises and whichever
\* lookup path it takes, leaves the reference store of every pair, the
\* analyzed frames and every field of the trade as they were.
C19_ReadOnly ==
    [][call'.made =>
         /\ \A pair \in Pairs : custom_info'[pair] = custom_info[pair]
         /\ analyzed' = analyzed
         /\ trade'.open_rate = trade.open_rate
         /\ trade'.open_date = trade.open_date
         /\ trade'.fee_open = trade.fee_open
         /\ trade'.fee_close = trade.fee_close
         /\ trade'.pair = trade.pair]_vars

\* C19 witness: a call of SwingATRBreakevenV2 answered above the floor on the
\* exception path of its lookup, from a store that still holds the rows of the
\* last pass, for a trade with fees.
C19_Witness ==
    /\ strategy = SwingATR
    /\ ~get_loc_ffill
    /\ Returned
    /\ Gt(call.result, Floor)
    /\ analyzed[trade.pair] # <<>>
    /\ custom_info[trade.pair] = SnapshotOf(trade.pair, analyzed[trade.pair])
    /\ trade.fee_open # Zero

\* the mode texts that read "trend" once trimmed and lower-cased
TrendTexts == {<<"t", "r", "e", "n", "d">>, <<" ", "T", "r", "e", "n", "d", "\n">>}

\* the mode the configuration asks for, read off the configuration alone
RequestedTrend(config) ==
    /\ config.custom = "dict"
    /\ config.mode.kind = "str"
    /\ config.mode.text \in TrendTexts

\* C20: FixedRR_MultiMode.bot_start, whatever the configuration (no custom
\* key, custom not a dict, mode missing, mode a string or another value),
\* leaves _mode "trend" exactly when the supplied mode, trimmed and
\* lower-cased, is "trend" and "mr" otherwise, and installs that mode's
\* preset: (1.2, 0.6, 1.8, -0.08) for "mr", (2.0, 0.8, 2.2, -0.18) for "trend".
C20_ModeResolution ==
    [][\A config \in Configs :
          (strategy = FixedRR /\ BotStart(config)) =>
             /\ cfg'.started
             /\ cfg'.mode = (IF RequestedTrend(config) THEN "trend" ELSE "mr")
             /\ cfg'.mode = "mr" =>
                   /\ cfg'.rr_ratio = Q(12, 10)
                   /\ cfg'.break_even_R = Q(6, 10)
                   /\ cfg'.atr_mult = Q(18, 10)
                   /\ cfg'.stoploss = Q(-8, 100)
             /\ cfg'.mode = "trend" =>
                   /\ cfg'.rr_ratio = Q(2, 1)
                   /\ cfg'.break_even_R = Q(8, 10)
                   /\ cfg'.atr_mult = Q(22, 10)
                   /\ cfg'.stoploss = Q(-18, 100)]_vars

\* C20 witness: FixedRR_MultiMode started in trend mode, its trade answered
\* below the mr floor of -0.08.
C20_Witness ==
    /\ strategy = FixedRR
    /\ cfg.started
    /\ cfg.mode = "trend"
    /\ cfg.rr_ratio = Q(2, 1)
    /\ Returned
    /\ Lt(call.result, Q(-8, 100))

\* C21: after populate_entry_trend of CustomStoplossWithPSAR a row's entry
\* flag is 1 exactly when the psar strict flip or the rsi rebound matches, and
\* its tag is that of the rsi rebound when that matches (the later rule) and
\* of the psar strict flip otherwise; after populate_exit_trend the exit flag
\* is 1 exactly when rsi_tp or bb_tp matches, with the tag of bb_tp when that
\* matches and of rsi_tp otherwise.
C21_LastRuleWins ==
    strategy = PSAR =>
      \A i \in 1..Len(signals.df) :
        LET row == signals.df[i] IN
        /\ signals.stage \in {"entry", "exit"} =>
             /\ row.enter_long = One
                  <=> (PSAR_cond_psar_strict(signals.df, i) \/ PSAR_cond_rsi(signals.df, i))
             /\ PSAR_cond_rsi(signals.df, i) => row.enter_tag = "rsi_rebound_35"
             /\ (PSAR_cond_psar_strict(signals.df, i) /\ ~PSAR_cond_rsi(signals.df, i))
                  => row.enter_tag = "psar_bull_flip_strict"
        /\ signals.stage = "exit" =>
             /\ row.exit_long = One
                  <=> (PSAR_rsi_tp(signals.df, i) \/ PSAR_bb_tp(signals.df, i))
             /\ PSAR_bb_tp(signals.df, i) => row.exit_tag = "bb_upper_tp"
             /\ (PSAR_rsi_tp(signals.df, i) /\ ~PSAR_bb_tp(signals.df, i))
                  => row.exit_tag = "rsi_overbought_70"

\* C21 witness: a row that both entry rules and both exit rules match, after
\* both callbacks.
C21_Witness ==
    /\ strategy = PSAR
    /\ signals.stage = "exit"
    /\ \E i \in 1..Len(signals.df) :
          /\ PSAR_cond_psar_strict(signals.df, i)
          /\ PSAR_cond_rsi(signals.df, i)
          /\ signals.df[i].enter_tag = "rsi_rebound_35"
          /\ PSAR_rsi_tp(signals.df, i)
          /\ PSAR_bb_tp(signals.df, i)
          /\ signals.df[i].exit_tag = "bb_upper_tp"

\* the PSAR of the latest analyzed candle of the trade's pair
LatestSar == analyzed[trade.pair][Len(analyzed[trade.pair])].sar

\* max(min(x, hi), lo)
Clamp(x, lo, hi) == PyMax(PyMin(x, hi), lo)

\* C22: a CustomStoplossWithPSAR call that reads a PSAR value sar at a price
\* above zero returns clamp(sar / current_rate - 1, -0.08, -0.02), and the
\* implied stop price is sar whenever sar lies between 2% and 8% below the
\* price.
C22_PsarTrail ==
    (/\ strategy = PSAR
     /\ Returned
     /\ custom_info[trade.pair].present
     /\ analyzed[trade.pair] # <<>>
     /\ ~IsNaN(LatestSar)
     /\ Gt(call.current_rate, Zero)) =>
        /\ call.result = Clamp(Sub(Div(LatestSar, call.current_rate), One),
                               Q(-8, 100), Q(-2, 100))
        /\ (/\ Le(LatestSar, Mul(call.current_rate, Q(98, 100)))
            /\ Ge(LatestSar, Mul(call.current_rate, Q(92, 100))))
              => ImpliedStop = LatestSar

\* the ATR SwingHighToSkyV2 finds for the entry time of the open trade
AtrOpen == HighToSky_atr_at(custom_info, trade.pair, trade.open_date, get_loc_ffill)

AtrAtOpen ==
    LET info_df == custom_info[trade.pair]
    IN  info_df.rows[FfillPosition(info_df.rows, trade.open_date, get_loc_ffill)].atr

\* open_rate - min(atr_init_mult * ATR(entry_time), max_init_sl * open_rate)
InitialStopPrice ==
    Sub(trade.open_rate,
        PyMin(Mul(Q(15, 10), AtrAtOpen), Mul(Q(35, 1000), trade.open_rate)))

\* C24: in SwingATRBreakevenV2, for a trade whose entry-time ATR is available
\* and a current_rate > 0, the implied stop price current_rate * (1 + ratio)
\* is never below the initial stop price.
C24_NeverBelowInitialStop ==
    (/\ strategy = SwingATR
     /\ Returned
     /\ custom_info[trade.pair].present
     /\ custom_info[trade.pair].rows # <<>>
     /\ ~IsNaN(AtrAtOpen)
     /\ Gt(call.current_rate, Zero)) =>
        Ge(ImpliedStop, InitialStopPrice)

\* ATR% of the latest candle of a dataframe as Sma20RsiBbAtrStrategy reads
\* it: ATR / close, 0 for an ATR still in its warm-up
AtrPct(df) ==
    LET last == df[Len(df)]
    IN  IF IsNaN(last.atr) \/ ~Gt(last.close, Zero) THEN Zero ELSE Div(last.atr, last.close)

\* latest candles from calm to wild: ATR of 0 to 8 on a close of 100
AtrLadder ==
    {<<[date |-> MaxDate, close |-> Q(100, 1), atr |-> Q(a, 1), sar |-> Q(97, 1)]>> :
        a \in {0, 1, 2, 3, 5, 8}}

\* what Sma20RsiBbAtrStrategy returns at the call's profit when the analyzed
\* dataframe of the trade's pair is df
Sma20At(df, current_profit) ==
    Sma20_custom_stoploss([analyzed EXCEPT ![trade.pair] = df], trade.pair, current_profit)

\* C25: in Sma20RsiBbAtrStrategy, at a fixed profit, a latest candle with a
\* higher ATR% never gives a tighter stop (the ratio is non-increasing in ATR%,
\* also across the 2% boundary), and every result lies in
\* [self.stoploss, -0.008].
C25_AtrAdaptive ==
    (strategy = Sma20 /\ Returned) =>
        /\ Ge(call.result, Floor)
        /\ Le(call.result, Q(-8, 1000))
        /\ \A df \in (Batches \ {<<>>}) \cup AtrLadder :
              LET other == Sma20At(df, call.current_profit).result
              IN  /\ Ge(other, Floor)
                  /\ Le(other, Q(-8, 1000))
                  /\ Le(AtrPct(analyzed[trade.pair]), AtrPct(df)) => Ge(call.result, other)
                  /\ Ge(AtrPct(analyzed[trade.pair]), AtrPct(df)) => Le(call.result, other)

\* C25 witness: a call on a calm candle (ATR% below 2%) answered tighter than
\* a wild candle would be at the same profit, and a candle wild enough to be
\* held at the floor.
C25_Witness ==
    /\ strategy = Sma20
    /\ Returned
    /\ Lt(AtrPct(analyzed[trade.pair]), Q(2, 100))
    /\ Gt(AtrPct(analyzed[trade.pair]), Zero)
    /\ \E df \in Batches \ {<<>>} :
          /\ Ge(AtrPct(df), Q(2, 100))
          /\ Gt(call.result, Sma20At(df, call.current_profit).result)
    /\ \E df \in AtrLadder : Sma20At(df, call.current_profit).result = Floor

\* the prices above zero a tick can carry
PositiveRates == {p \in Rates : Gt(p, Zero)}

\* C26: in the risk-multiple variants, for the open trade and the store as
\* they are, custom_stoploss returns at every price above zero, and of two
\* such prices p1 <= p2 the stop price p2 * (1 + ratio(p2)) is at or above
\* p1 * (1 + ratio(p1)).
C26_StopNeverFalls ==
    (strategy \in RiskMultiple /\ call.made) =>
        LET stop == [p \in PositiveRates |-> StopPriceAt(p)]
        IN  /\ \A p \in PositiveRates : ~ResultAt(p, call.current_profit).raised
            /\ \A p1, p2 \in PositiveRates : Le(p1, p2) => Ge(stop[p2], stop[p1])

\* C26 witness: a trade of SwingEMA_RSI_ATR or FixedRR_MultiMode with positive
\* risk whose stop price is the entry reference at a price below the entry and
\* rises twice on the way up.
C26_Witness ==
    /\ strategy \in {SwingEMA, FixedRR}
    /\ call.made
    /\ PositiveRisk
    /\ \E p1, p2, p3 \in PositiveRates :
          /\ Lt(p1, trade.open_rate)
          /\ StopPriceAt(p1) = EntryReference
          /\ Lt(StopPriceAt(p1), StopPriceAt(p2))
          /\ Lt(StopPriceAt(p2), StopPriceAt(p3))

\* the ratio custom_stoploss returns for the open trade at price p when the
\* store is ci and the analyzed frames are an
RatioWith(ci, an, p) ==
    custom_stoploss(strategy, cfg, get_loc_ffill, ci, an, trade.pair, trade, MaxDate, p,
                    None).result

\* new is a later window of the candle history than old, both with every
\* indicator past its warm-up
Sliding(old, new) ==
    /\ old # <<>>
    /\ new # <<>>
    /\ new[1].date > old[1].date
    /\ new[Len(new)].date > old[Len(old)].date
    /\ \A i \in 1..Len(old) : ~IsNaN(old[i].atr)
    /\ \A i \in 1..Len(new) : ~IsNaN(new[i].atr)

\* C27: in the risk-multiple variants, an indicator pass over a later window
\* of the same candle history, whether or not it still holds the candle of
\* the entry time, never lowers the ratio returned for the open trade at any
\* price.
C27_StableAcrossPasses ==
    [][(/\ strategy \in RiskMultiple
        /\ trade # NoTrade
        /\ trade' = trade
        /\ Sliding(analyzed[trade.pair], analyzed'[trade.pair])
        /\ IndicatorPass(trade.pair, analyzed'[trade.pair])) =>
          \A p \in PositiveRates :
             Ge(RatioWith(custom_info', analyzed', p), RatioWith(custom_info, analyzed, p))]_vars

\* the profits a tick of Sma20RsiBbAtrStrategy can carry
ProfitLadder == TickProfits(Sma20) \ {None}

\* C28: in Sma20RsiBbAtrStrategy, for the latest candle as it is, the ratio is
\* non-decreasing in current_profit: of two profits p1 <= p2 the ratio at p2 is
\* >= the ratio at p1.
C28_ProfitNeverLoosens ==
    (strategy = Sma20 /\ Returned) =>
        \A p1, p2 \in ProfitLadder :
            Le(p1, p2) => Ge(ResultAt(call.current_rate, p2).result,
                             ResultAt(call.current_rate, p1).result)

\* C28 amended: the ratio at any profit is >= the ratio at a profit that has
\* not passed the 4% trigger (or is absent), so arming the profit lock never
\* loosens the stop; past the trigger the ratio is non-increasing in the
\* profit: the lock trails half the profit behind the price, between 1.5% and
\* 5%.
C28_ArmingNeverLoosens ==
    (strategy = Sma20 /\ Returned) =>
        LET ratio == [p \in ProfitLadder |-> ResultAt(call.current_rate, p).result]
        IN  /\ \A p \in ProfitLadder : Ge(ratio[p], ResultAt(call.current_rate, None).result)
            /\ \A p1, p2 \in ProfitLadder :
                  /\ (Le(p1, p2) /\ Le(p1, Q(4, 100))) => Ge(ratio[p2], ratio[p1])
                  /\ (Le(p1, p2) /\ Gt(p1, Q(4, 100))) => Le(ratio[p2], ratio[p1])

\* C28 witness: a call at 10% profit on a wild candle, answered looser than at
\* 5% profit and tighter than with the lock not armed.
C28_Witness ==
    /\ strategy = Sma20
    /\ Returned
    /\ call.current_profit = Q(10, 100)
    /\ Lt(call.result, ResultAt(call.current_rate, Q(5, 100)).result)
    /\ Gt(call.result, ResultAt(call.current_rate, Q(2, 100)).result)

\* the values rr_ratio can take: the ends and the default of the declared
\* range of the two hyperoptable strategies, the preset in force or the class
\* attribute of the other two
RrValues ==
    CASE strategy = EdgeBreak -> {Q(16, 10), Q(22, 10), Q(30, 10)}
      [] strategy = SwingEMA  -> {Q(16, 10), Q(20, 10), Q(28, 10)}
      [] strategy = FixedRR   -> {cfg.rr_ratio}
      [] strategy = FixedRRLI -> {Q(2, 1)}

\* the two strategies with a lock-in stage
HasLockIn == strategy \in {EdgeBreak, SwingEMA}

\* lock_abs = trade.open_rate + k * risk_abs
LockPrice ==
    Add(trade.open_rate,
        Mul(IF strategy = EdgeBreak THEN Q(4, 10) ELSE Q(5, 10), RiskAmount))

BreakevenTrigger == Add(trade.open_rate, Mul(BreakevenR, RiskAmount))

\* C29: in the risk-multiple variants, for every admissible rr_ratio and a
\* trade with risk_amount > 0, breakeven trigger < lock-in trigger <
\* take-profit target (breakeven trigger < target where there is no lock-in
\* stage), the lock-in price is below the lock-in trigger, and at every price
\* a later stage's gate is true only if every earlier stage's gate is.
C29_CumulativeStages ==
    (strategy \in RiskMultiple /\ call.made /\ PositiveRisk) =>
        \A rr \in RrValues :
            LET tp_abs == Add(trade.open_rate, Mul(rr, RiskAmount))
                lock_trigger == LockTrigger(trade.open_rate, RiskAmount)
            IN  /\ Lt(BreakevenTrigger, tp_abs)
                /\ HasLockIn =>
                      /\ Lt(BreakevenTrigger, lock_trigger)
                      /\ Lt(lock_trigger, tp_abs)
                      /\ Lt(LockPrice, lock_trigger)
                /\ \A p \in Rates :
                      /\ Reached(p, tp_abs) => Reached(p, BreakevenTrigger)
                      /\ HasLockIn =>
                            /\ Reached(p, tp_abs) => Reached(p, lock_trigger)
                            /\ Reached(p, lock_trigger) => Reached(p, BreakevenTrigger)

\* C29 witness: a call of a strategy with a lock-in stage at a price between
\* the lock-in trigger and the widest take-profit target, and a price past
\* every target.
C29_Witness ==
    /\ HasLockIn
    /\ Returned
    /\ PositiveRisk
    /\ Reached(call.current_rate, LockTrigger(trade.open_rate, RiskAmount))
    /\ ~Reached(call.current_rate, Add(trade.open_rate, Mul(Q(28, 10), RiskAmount)))
    /\ \E p \in Rates : Reached(p, Add(trade.open_rate, Mul(Q(30, 10), RiskAmount)))

\* C30: after populate_entry_trend of EdgeBreakRetestV1 no row is matched by
\* both the trend_pullback rule and the mr_dip rule, so a row the
\* trend_pullback rule set keeps that tag; and a row's enter_tag is non-empty
\* exactly when its enter_long is 1, which requires volume > 0.
C30_UnambiguousTag ==
    (strategy = EdgeBreak /\ signals.stage \in {"entry", "exit"}) =>
        \A i \in 1..Len(signals.df) :
            LET row == signals.df[i] IN
            /\ ~(EdgeBreak_trend_entry(signals.df, i) /\ EdgeBreak_mr_entry(signals.df, i))
            /\ (EdgeBreak_trend_entry(signals.df, i) /\ Gt(row.volume, Zero))
                  => row.enter_tag = "trend_pullback"
            /\ row.enter_tag # "" <=> row.enter_long = One
            /\ row.enter_long = One => Gt(row.volume, Zero)
            /\ row.enter_long \in {Zero, One}

\* C30 witness: a frame whose latest row the trend_pullback rule tagged, with
\* ADX on the threshold, a close at or below the lower band and an RSI low
\* enough for mr_dip.
C30_Witness ==
    /\ strategy = EdgeBreak
    /\ signals.stage = "exit"
    /\ \E i \in 1..Len(signals.df) :
          /\ signals.df[i].enter_tag = "trend_pullback"
          /\ signals.df[i].adx14 = Q(20, 1)
          /\ Le(signals.df[i].close, signals.df[i].bb_lower)
          /\ Le(signals.df[i].rsi, Q(36, 1))
          /\ signals.df[i].exit_tag = "rule_exit"

====
